---- MODULE Spec2Model ----
(***************************************************************************)
(* BetterOMS: the trade-plan execution engine.                             *)
(*                                                                         *)
(*   TradeRunnerService.executeTradePlan  (idempotency, history record)    *)
(*     -> ExecutorService.executeTradePlan (sequential fail-fast loop)     *)
(*       -> PaperExecutor.executeTrade     (SELL gating, fill simulation)  *)
(*         -> ExecutorRepository           (orders / executions tables)    *)
(*                                                                         *)
(* The three tables are the committed database state.  Every await of the  *)
(* code is a step of the calling process, so that two processes can        *)
(* interleave exactly where the code can be suspended.                     *)
(*                                                                         *)
(* Numbers.  Prices are counted in ticks of 1/ONE, so that the open        *)
(* interval (0,1) is 0 < p < ONE.  Sizes are whole collateral units chosen *)
(* so that size / price is a whole number of tokens for every valid tick:  *)
(* the floating point of the code is exact on these inputs, and quantity   *)
(* and price fit the decimal(20,6) / decimal(10,6) columns unrounded.      *)
(***************************************************************************)
EXTENDS Integers, Sequences, FiniteSets, TLC

\* Number of trades submitted in one behaviour, over all the plans submitted:
\* one plan of MaxTrades trades, or several shorter ones.
MaxTrades == 2

\* 1.0 in price ticks (a tick is 0.25).
ONE == 2 * 2
\* Collateral size of every trade of the model, in USDC.
PlanSize == ONE - 1
\* A price that is absent (undefined in a Trade, NULL in orders.price).
NoPrice == 0 - 1
\* The limit price of the LIMIT trades of the model: 0.50.
LimitTick == ONE \div 2

PlanIds == {"P1", "P2"}
Tokens == {"T1"}
Outcomes == {"YES"}
Sides == {"BUY", "SELL"}
Modes == {"paper", "live"}

\* Top-of-book prices the market data port may return: 0, 0.25, .. 1.0.
BookPrices == 0 .. ONE
\* One side of a book, best level first; only level [0] is ever read.
Levels == {<<>>} \cup {<<p>> : p \in BookPrices}
Books == [bids : Levels, asks : Levels]

Null == [null |-> TRUE]

Trades ==
  [marketTokenId : Tokens, outcome : Outcomes, side : Sides,
   orderType : {"MARKET"}, size : {PlanSize}, price : {NoPrice}]
  \cup
  [marketTokenId : Tokens, outcome : Outcomes, side : Sides,
   orderType : {"LIMIT"}, size : {PlanSize}, price : {LimitTick}]

TradeLists == UNION {[1 .. n -> Trades] : n \in 1 .. MaxTrades}

\* Validated plans: a non-empty trade list, a price on every LIMIT trade.
Plans == [planId : PlanIds, mode : Modes, trades : TradeLists]

----------------------------------------------------------------------------
(* Errors.  Every error of the core is an ExecutionError told apart by its *)
(* message; kind stands for the message, wrapped for the prefix "Failed to *)
(* execute paper trade: " that executeTrade puts on foreign errors.        *)

Err(kind) == [kind |-> kind, wrapped |-> FALSE]

IsExecutionError(e) ==
  e.kind \in {"DuplicatePlan", "InsufficientPosition", "NoLiquidity",
              "InvalidPrice", "UnsupportedOrderKind", "MissingPrice",
              "LiveNotSupported"}

\* A catch block that replaces every error by one of its own.
executeTradeCatch_Replaces(e) == Err("ExecutionFailed")

\* The catch block of PaperExecutor.executeTrade.  A wrapped error stands for
\* the ExecutionError whose message is "Failed to execute paper trade: "
\* followed by the message of the error caught, which it keeps as its cause.
executeTradeCatch(e) ==
  IF IsExecutionError(e) \/ e.wrapped THEN e
  ELSE [kind |-> e.kind, wrapped |-> TRUE]

----------------------------------------------------------------------------
(* Arithmetic of the code's numbers.                                       *)

RECURSIVE SumQuantity(_)
SumQuantity(rows) ==
  IF rows = {} THEN 0
  ELSE LET r == CHOOSE x \in rows : TRUE
       IN r.quantity + SumQuantity(rows \ {r})

\* Sum of quantity * price over fill rows, in ticks of collateral.
RECURSIVE SumTotal(_)
SumTotal(rows) ==
  IF rows = {} THEN 0
  ELSE LET r == CHOOSE x \in rows : TRUE
       IN r.quantity * r.price + SumTotal(rows \ {r})

\* More tokens than any position of the model can hold: stands for the
\* +Infinity that size / 0 gives in the code.
Infinity == 1 + (MaxTrades + 2) * PlanSize * ONE

\* Number.NaN: what parseFloat gives for a price string that is not a number.
\* It is told apart from the numbers by a value that no price, quantity or
\* position of the trade runs can take.
NaN == 0 - 2 * Infinity

\* The comparisons of JavaScript numbers: each is false when an operand is
\* NaN.
Lt(a, b) == a # NaN /\ b # NaN /\ a < b
Le(a, b) == a # NaN /\ b # NaN /\ a <= b
Gt(a, b) == a # NaN /\ b # NaN /\ a > b
Ge(a, b) == a # NaN /\ b # NaN /\ a >= b

\* trade.size / price, in tokens.
Divide(size, price) ==
  IF price = NaN THEN NaN
  ELSE IF price = 0 THEN Infinity ELSE (size * ONE) \div price

Min(a, b) == IF a < b THEN a ELSE b

RECURSIVE Gcd(_, _)
Gcd(a, b) == IF b = 0 THEN a ELSE Gcd(b, a % b)

Abs(a) == IF a < 0 THEN 0 - a ELSE a

\* n / d as a fraction in lowest terms, for values n and d > 0.
Lowest(n, d) ==
  IF n = 0 THEN [num |-> 0, den |-> 1]
  ELSE [num |-> n \div Gcd(Abs(n), d), den |-> d \div Gcd(Abs(n), d)]

\* The quotient n / d as a fraction in lowest terms; d > 0.  The operands are
\* evaluated once.
Rat(n, d) == CHOOSE q \in {Lowest(v[1], v[2]) : v \in {<<n, d>>}} : TRUE

----------------------------------------------------------------------------
(* Order & Fill Store: ExecutorRepository.                                 *)

\* orders.id / executions.id: defaultRandom() gives a fresh id; the model
\* takes the least unused number.
FreshId(used) == CHOOSE i \in 1 .. (Cardinality(used) + 1) : i \notin used

\* The NewOrder row that executeTrade builds for a trade.
NewOrder(planId, trade, status) ==
  [planId |-> planId, marketTokenId |-> trade.marketTokenId,
   outcome |-> trade.outcome, side |-> trade.side,
   orderType |-> trade.orderType, size |-> trade.size,
   price |-> trade.price, status |-> status, mode |-> "paper"]

WithId(row, id) == [f \in DOMAIN row \cup {"id"} |->
                      IF f = "id" THEN id ELSE row[f]]

\* An update whose where clause matches no row.
SetOrderStatus_NoRow(ords, orderId, status) == ords

\* An update that stores partially_filled whatever status it is given.
SetOrderStatus_Partial(ords, orderId, status) ==
  {IF o.id = orderId THEN [o EXCEPT !.status = "partially_filled"] ELSE o :
     o \in ords}

\* tx.update(orders).set({status}).where(eq(orders.id, orderId))
SetOrderStatus(ords, orderId, status) ==
  {IF o.id = orderId THEN [o EXCEPT !.status = status] ELSE o : o \in ords}

getOrdersByPlanId(ords, planId) == {o \in ords : o.planId = planId}

\* A select over orders LEFT JOIN executions: an order without a fill gives a
\* row too, with its size at its limit price.
PositionRows_OrdersToo(ords, execs, marketTokenId, outcome, mode) ==
  {[id |-> e.id, side |-> o.side, quantity |-> e.quantity, price |-> e.price] :
     <<o, e>> \in {oe \in ords \X execs :
                     /\ oe[1].id = oe[2].orderId
                     /\ oe[1].marketTokenId = marketTokenId
                     /\ oe[1].outcome = outcome
                     /\ oe[1].mode = mode}}
  \cup
  {[id |-> 0 - o.id, side |-> o.side, quantity |-> o.size, price |-> o.price] :
     o \in {x \in ords : /\ x.marketTokenId = marketTokenId
                         /\ x.outcome = outcome
                         /\ x.mode = mode
                         /\ \A e \in execs : e.orderId # x.id}}

\* The rows of executions INNER JOIN orders that calculatePosition selects.
PositionRows(ords, execs, marketTokenId, outcome, mode) ==
  {[id |-> e.id, side |-> o.side, quantity |-> e.quantity, price |-> e.price] :
     <<o, e>> \in {oe \in ords \X execs :
                     /\ oe[1].id = oe[2].orderId
                     /\ oe[1].marketTokenId = marketTokenId
                     /\ oe[1].outcome = outcome
                     /\ oe[1].mode = mode}}

\* A position whose realized P&L charges the whole BUY cost, closed or not.
PositionOfRows_WholeCost(result, marketTokenId, outcome) ==
  LET buys == {r \in result : r.side = "BUY"}
      sells == result \ buys
      buyQuantity == SumQuantity(buys)
      buyTotal == SumTotal(buys)
      sellQuantity == SumQuantity(sells)
      sellTotal == SumTotal(sells)
      netQuantity == buyQuantity - sellQuantity
      avgPrice ==
        IF netQuantity # 0
        THEN (IF netQuantity > 0 THEN Rat(buyTotal, buyQuantity)
              ELSE Rat(sellTotal, sellQuantity))
        ELSE (IF buyQuantity > 0 THEN Rat(buyTotal, buyQuantity)
              ELSE Rat(0, 1))
      closedQuantity == Min(buyQuantity, sellQuantity)
      realizedPnL ==
        IF closedQuantity > 0 THEN Rat(sellTotal - buyTotal, 1) ELSE Rat(0, 1)
  IN IF result = {} THEN Null
     ELSE [marketTokenId |-> marketTokenId, outcome |-> outcome,
           netQuantity |-> netQuantity, avgPrice |-> avgPrice,
           realizedPnL |-> realizedPnL]

\* The position that calculatePosition computes from the rows it selected.
PositionOfRows(result, marketTokenId, outcome) ==
  LET buys == {r \in result : r.side = "BUY"}
      sells == result \ buys
      buyQuantity == SumQuantity(buys)
      buyTotal == SumTotal(buys)
      sellQuantity == SumQuantity(sells)
      sellTotal == SumTotal(sells)
      netQuantity == buyQuantity - sellQuantity
      avgPrice ==
        IF netQuantity # 0
        THEN (IF netQuantity > 0 THEN Rat(buyTotal, buyQuantity)
              ELSE Rat(sellTotal, sellQuantity))
        ELSE (IF buyQuantity > 0 THEN Rat(buyTotal, buyQuantity)
              ELSE Rat(0, 1))
      closedQuantity == Min(buyQuantity, sellQuantity)
      realizedPnL ==
        IF closedQuantity > 0
        THEN Rat(sellTotal * buyQuantity - buyTotal * closedQuantity,
                 buyQuantity)
        ELSE Rat(0, 1)
  IN IF result = {} THEN Null
     ELSE [marketTokenId |-> marketTokenId, outcome |-> outcome,
           netQuantity |-> netQuantity, avgPrice |-> avgPrice,
           realizedPnL |-> realizedPnL]

\* A select whose where clause leaves out the outcome.
calculatePosition_AnyOutcome(ords, execs, marketTokenId, outcome, mode) ==
  CHOOSE position \in
    {PositionOfRows(result, marketTokenId, outcome) :
       result \in {UNION {PositionRows(ords, execs, marketTokenId, any, mode) :
                            any \in {o.outcome : o \in ords}}}} : TRUE

\* The select is run once, then the position is computed from its rows.
calculatePosition(ords, execs, marketTokenId, outcome, mode) ==
  CHOOSE position \in
    {PositionOfRows(result, marketTokenId, outcome) :
       result \in {PositionRows(ords, execs, marketTokenId, outcome, mode)}} : TRUE

----------------------------------------------------------------------------
(* Position Aggregator: position-calculator.validateSellPosition.          *)

\* A check that takes a missing position for a sufficient one.
validateSellPosition_NoPositionPasses(ords, execs, marketTokenId, outcome, mode, requiredQuantity) ==
  LET position == calculatePosition(ords, execs, marketTokenId, outcome, mode)
  IN IF position = Null
     THEN [valid |-> TRUE, currentQuantity |-> 0]
     ELSE IF Le(position.netQuantity, 0)
     THEN [valid |-> FALSE, currentQuantity |-> position.netQuantity]
     ELSE IF Lt(position.netQuantity, requiredQuantity)
     THEN [valid |-> FALSE, currentQuantity |-> position.netQuantity]
     ELSE [valid |-> TRUE, currentQuantity |-> position.netQuantity]

\* A check that does not compare the position with the quantity to sell.
validateSellPosition_AnyQuantity(ords, execs, marketTokenId, outcome, mode, requiredQuantity) ==
  LET position == calculatePosition(ords, execs, marketTokenId, outcome, mode)
  IN IF position = Null
     THEN [valid |-> FALSE, currentQuantity |-> 0]
     ELSE IF Le(position.netQuantity, 0)
     THEN [valid |-> FALSE, currentQuantity |-> position.netQuantity]
     ELSE [valid |-> TRUE, currentQuantity |-> position.netQuantity]

validateSellPosition(ords, execs, marketTokenId, outcome, mode, requiredQuantity) ==
  LET position == calculatePosition(ords, execs, marketTokenId, outcome, mode)
  IN IF position = Null
     THEN [valid |-> FALSE, currentQuantity |-> 0]
     ELSE IF Le(position.netQuantity, 0)
     THEN [valid |-> FALSE, currentQuantity |-> position.netQuantity]
     ELSE IF Lt(position.netQuantity, requiredQuantity)
     THEN [valid |-> FALSE, currentQuantity |-> position.netQuantity]
     ELSE [valid |-> TRUE, currentQuantity |-> position.netQuantity]

----------------------------------------------------------------------------
(* Fill Simulator and SELL gate: PaperExecutor.                            *)

Fill(fillPrice, quantity) ==
  [kind |-> "fill", fillPrice |-> fillPrice, quantity |-> quantity]
NoFill == [kind |-> "nofill"]
Throw(e) == [kind |-> "throw", error |-> e]
Pass == [kind |-> "pass"]

\* executeTrade, step 1: only a MARKET SELL is gated before the simulation.
NeedsSellGate(trade) == trade.side = "SELL" /\ trade.orderType = "MARKET"

validateSellOrder(trade, orderBook, ords, execs) ==
  IF Len(orderBook.bids) = 0 THEN Throw(Err("NoLiquidity"))
  ELSE
    LET expectedFillPrice == orderBook.bids[1]
        requiredQuantity == Divide(trade.size, expectedFillPrice)
        validation == validateSellPosition(ords, execs, trade.marketTokenId,
                                           trade.outcome, "paper", requiredQuantity)
    IN IF ~validation.valid THEN Throw(Err("InsufficientPosition")) ELSE Pass

\* A market fill taken from the trade's own side of the book.
simulateMarketOrderFill_OwnSide(trade, orderBook) ==
  LET side == IF trade.side = "BUY" THEN orderBook.bids ELSE orderBook.asks
  IN IF Len(side) = 0 THEN Throw(Err("NoLiquidity"))
     ELSE LET fillPrice == side[1]
          IN IF Le(fillPrice, 0) \/ Ge(fillPrice, ONE)
             THEN Throw(Err("InvalidPrice"))
             ELSE Fill(fillPrice, Divide(trade.size, fillPrice))

simulateMarketOrderFill(trade, orderBook) ==
  LET side == IF trade.side = "BUY" THEN orderBook.asks ELSE orderBook.bids
  IN IF Len(side) = 0 THEN Throw(Err("NoLiquidity"))
     ELSE LET fillPrice == side[1]
          IN IF Le(fillPrice, 0) \/ Ge(fillPrice, ONE)
             THEN Throw(Err("InvalidPrice"))
             ELSE Fill(fillPrice, Divide(trade.size, fillPrice))

\* A crossing test that leaves out the equal price.
Crosses_Strict(trade, best) ==
  IF trade.side = "BUY" THEN Gt(trade.price, best) ELSE Lt(trade.price, best)

\* A crossing test with its comparisons the wrong way round.
Crosses_Reversed(trade, best) ==
  IF trade.side = "BUY" THEN Le(trade.price, best) ELSE Ge(trade.price, best)

\* limitPrice >= bestAsk for a BUY, limitPrice <= bestBid for a SELL.
Crosses(trade, best) ==
  IF trade.side = "BUY" THEN Ge(trade.price, best) ELSE Le(trade.price, best)

simulateLimitOrderFill(trade, orderBook, ords, execs) ==
  LET side == IF trade.side = "BUY" THEN orderBook.asks ELSE orderBook.bids
  IN IF trade.price = NoPrice THEN Throw(Err("MissingPrice"))
     ELSE IF Len(side) = 0 THEN Throw(Err("NoLiquidity"))
     ELSE IF ~Crosses(trade, side[1]) THEN NoFill
     ELSE
       LET fillPrice == side[1]
           requiredQuantity == Divide(trade.size, fillPrice)
           validation == validateSellPosition(ords, execs, trade.marketTokenId,
                                              trade.outcome, "paper", requiredQuantity)
       IN IF Le(fillPrice, 0) \/ Ge(fillPrice, ONE)
          THEN Throw(Err("InvalidPrice"))
          ELSE IF trade.side = "SELL" /\ ~validation.valid
          THEN Throw(Err("InsufficientPosition"))
          ELSE Fill(fillPrice, Divide(trade.size, fillPrice))

\* A simulation that checks the position of every SELL, MARKET ones included.
simulateFill_ChecksEverySell(trade, orderBook, ords, execs) ==
  IF trade.orderType = "MARKET"
  THEN IF trade.side = "SELL"
          /\ validateSellOrder(trade, orderBook, ords, execs).kind = "throw"
       THEN validateSellOrder(trade, orderBook, ords, execs)
       ELSE simulateMarketOrderFill(trade, orderBook)
  ELSE IF trade.orderType = "LIMIT"
  THEN simulateLimitOrderFill(trade, orderBook, ords, execs)
  ELSE Throw(Err("UnsupportedOrderKind"))

\* executeTrade, step 2.
simulateFill(trade, orderBook, ords, execs) ==
  IF trade.orderType = "MARKET" THEN simulateMarketOrderFill(trade, orderBook)
  ELSE IF trade.orderType = "LIMIT"
  THEN simulateLimitOrderFill(trade, orderBook, ords, execs)
  ELSE Throw(Err("UnsupportedOrderKind"))

----------------------------------------------------------------------------
(* Execution history: TradeRunnerRepository.                               *)

\* A lookup that finds nothing (a wrong key in the where clause).
checkPlanExists_Never(history, planId) == FALSE

\* A lookup that finds a record whatever the plan id.
checkPlanExists_Always(history, planId) == TRUE

checkPlanExists(history, planId) == planId \in DOMAIN history

\* execution_history.plan_id is the primary key: a second insert of the same
\* key is refused by the database.
PrimaryKeyConflict(history, planId) == planId \in DOMAIN history

\* An insert that stores the record as already completed.
createExecutionHistory_Completed(history, data) ==
  [k \in DOMAIN history \cup {data.planId} |->
     IF k = data.planId
     THEN [planJson |-> data.planJson, status |-> "completed",
           summaryJson |-> Null, errorMessage |-> Null]
     ELSE history[k]]

createExecutionHistory(history, data) ==
  [k \in DOMAIN history \cup {data.planId} |->
     IF k = data.planId
     THEN [planJson |-> data.planJson, status |-> data.status,
           summaryJson |-> Null, errorMessage |-> Null]
     ELSE history[k]]

\* An update whose where clause matches no record.
completeExecutionHistory_NoRow(history, planId, summaryJson, status) == history

\* An update that sets the status and leaves the summary column alone.
completeExecutionHistory_StatusOnly(history, planId, summaryJson, status) ==
  [k \in DOMAIN history |->
     IF k = planId
     THEN [history[k] EXCEPT !.status = status, !.errorMessage = Null]
     ELSE history[k]]

completeExecutionHistory(history, planId, summaryJson, status) ==
  [k \in DOMAIN history |->
     IF k = planId
     THEN [history[k] EXCEPT !.status = status, !.summaryJson = summaryJson,
                             !.errorMessage = Null]
     ELSE history[k]]

\* An update without its where clause: every record is set failed.
failExecutionHistory_EveryRow(history, planId, errorMessage) ==
  [k \in DOMAIN history |->
     [history[k] EXCEPT !.status = "failed", !.errorMessage = errorMessage]]

failExecutionHistory(history, planId, errorMessage) ==
  [k \in DOMAIN history |->
     IF k = planId
     THEN [history[k] EXCEPT !.status = "failed", !.errorMessage = errorMessage]
     ELSE history[k]]

----------------------------------------------------------------------------
(* Plan Orchestrator: TradeRunnerService.generateRunSummary.               *)

RatAdd(a, b) == Rat(a.num * b.den + b.num * a.den, a.den * b.den)

RECURSIVE SumRealizedPnL(_)
SumRealizedPnL(positions) ==
  IF positions = {} THEN Rat(0, 1)
  ELSE LET x == CHOOSE y \in positions : TRUE
       IN RatAdd(x.realizedPnL, SumRealizedPnL(positions \ {x}))

\* The entry that generateRunSummary pushes for a position it found.
SummaryPosition(position) ==
  [marketTokenId |-> position.marketTokenId,
   outcome |-> position.outcome,
   netQuantity |-> position.netQuantity,
   avgPrice |-> position.avgPrice,
   totalCost |-> Rat(position.netQuantity * position.avgPrice.num,
                     position.avgPrice.den),
   realizedPnL |-> position.realizedPnL]

\* A loop without the positionMap.has test: the realized P&L of a position is
\* added once for every order of the plan on its instrument and outcome.
SummaryOf_PerOrder(plan, planOrders, positions) ==
  [planId |-> plan.planId, mode |-> plan.mode,
   ordersPlaced |-> Cardinality(planOrders),
   ordersFilled |-> Cardinality({o \in planOrders : o.status = "filled"}),
   ordersPartiallyFilled |->
     Cardinality({o \in planOrders : o.status = "partially_filled"}),
   ordersFailed |-> Cardinality({o \in planOrders : o.status = "failed"}),
   totalPnL |->
     SumRealizedPnL({[id |-> o.id, realizedPnL |-> x.realizedPnL] :
                       <<o, x>> \in {ox \in planOrders \X positions :
                                       /\ ox[1].marketTokenId = ox[2].marketTokenId
                                       /\ ox[1].outcome = ox[2].outcome}}),
   positions |-> positions]

\* The summary built from the orders of the plan and the positions found.
SummaryOf(plan, planOrders, positions) ==
  [planId |-> plan.planId, mode |-> plan.mode,
   ordersPlaced |-> Cardinality(planOrders),
   ordersFilled |-> Cardinality({o \in planOrders : o.status = "filled"}),
   ordersPartiallyFilled |->
     Cardinality({o \in planOrders : o.status = "partially_filled"}),
   ordersFailed |-> Cardinality({o \in planOrders : o.status = "failed"}),
   totalPnL |-> SumRealizedPnL(positions),
   positions |-> positions]

\* One entry per instrument and outcome of the plan's orders that has a
\* position.
SummaryPositions(plan, planOrders, ords, execs) ==
  {SummaryPosition(position) :
     position \in {calculatePosition(ords, execs, o.marketTokenId, o.outcome,
                                     plan.mode) : o \in planOrders} \ {Null}}

\* The orders of the plan are read once, then the positions, then the
\* summary is built.
generateRunSummary(plan, ords, execs) ==
  CHOOSE summary \in
    UNION {{SummaryOf(plan, planOrders, positions) :
              positions \in {SummaryPositions(plan, planOrders, ords, execs)}} :
             planOrders \in {getOrdersByPlanId(ords, plan.planId)}} : TRUE

----------------------------------------------------------------------------
(* ExecutorService.executeTradePlan: the sequential, fail-fast loop.       *)

\* A loop that walks the trade list from its end.
TradeAt_Backwards(plan, i) == plan.trades[Len(plan.trades) + 1 - i]

TradeAt(plan, i) == plan.trades[i]

\* Where executeTrade starts for a trade: at the SELL gate or at the simulator.
TradeEntry(trade) == IF NeedsSellGate(trade) THEN "validate" ELSE "simulate"

\* A loop that returns after its first trade.
AfterTradeDone_LeavesLoop(plan, i) == [pc |-> "summary", idx |-> i + 1]

\* The loop after trade i returned: the next trade, or out of the loop.
AfterTradeDone(plan, i) ==
  IF i < Len(plan.trades)
  THEN [pc |-> TradeEntry(TradeAt(plan, i + 1)), idx |-> i + 1]
  ELSE [pc |-> "summary", idx |-> i + 1]

\* A loop that swallows the error of trade i and goes on with the next trade.
AfterTradeThrow_GoesOn(plan, i) == AfterTradeDone(plan, i)

\* The loop after trade i threw: the catch rethrows, no later trade runs.
AfterTradeThrow(plan, i) == [pc |-> "failing", idx |-> i]

\* An executor service without the mode test: a live plan runs as a paper one.
AfterCreate_RunsLive(plan) ==
  [pc |-> TradeEntry(TradeAt(plan, 1)), idx |-> 1, error |-> Null]

\* After the history record is created: live plans are refused before the loop.
AfterCreate(plan) ==
  IF plan.mode = "live"
  THEN [pc |-> "failing", idx |-> 0, error |-> Err("LiveNotSupported")]
  ELSE [pc |-> TradeEntry(TradeAt(plan, 1)), idx |-> 1, error |-> Null]

----------------------------------------------------------------------------
(* Transactions: db.transaction in executeTradeTransaction.  Rows written  *)
(* inside a transaction stay private to it until COMMIT.                   *)

\* A table after COMMIT of a transaction that wrote `rows`.
\* A commit that publishes the order rows of the transaction and not its
\* execution rows.
AfterCommit_WithoutFills(table, rows) ==
  table \cup {r \in rows : "status" \in DOMAIN r}

\* A commit whose status update has no where clause: every order of the
\* table is set filled.
AfterCommit_EveryOrderFilled(table, rows) ==
  {IF "status" \in DOMAIN r THEN [r EXCEPT !.status = "filled"] ELSE r :
     r \in table \cup rows}

\* A commit after which the table holds the rows of the transaction only.
AfterCommit_OnlyRows(table, rows) == rows

AfterCommit(table, rows) == table \cup rows

\* Statements that are not run inside the transaction: their rows stay.
AfterRollback_RowsStay(table, rows) == table \cup rows

\* A table after ROLLBACK of a transaction that wrote `rows` (an error thrown
\* inside the callback, or the connection of a dead process being closed).
\* A rollback that undoes the executions but leaves the order rows.
AfterRollback_OrdersStay(table, rows) ==
  table \cup {r \in rows : "status" \in DOMAIN r}

AfterRollback(table, rows) == table

----------------------------------------------------------------------------
(* State.                                                                  *)

Procs == {"A", "B"}

VARIABLES
  executionHistory,  \* table execution_history: plan id -> record
  orders,            \* table orders: committed rows
  executions,        \* table executions: committed rows
  pc,                \* per process: where its executeTradePlan call stands
  call,              \* per process: the call's plan and locals
  tx,                \* per process: rows written by its open transaction
  result,            \* per process: what its last call returned or threw
  submitted,         \* number of trades submitted so far, over all calls
  bidDropped,        \* a MARKET SELL filled below the bid its check had used
  input,             \* the arguments drawn for a function applied on its own
  output             \* what that function gave for them

vars ==
  <<executionHistory, orders, executions, pc, call, tx, result, submitted,
    bidDropped, input, output>>

NoTx == [orders |-> {}, executions |-> {}]
NoResult == [outcome |-> "none", error |-> Null, summary |-> Null]
Returned(summary) == [outcome |-> "returned", error |-> Null, summary |-> summary]
Threw(e) == [outcome |-> "threw", error |-> e, summary |-> Null]

\* The locals of a call: plan, idx (the loop index), sim (the fill simulation
\* of the current trade) and error (the error caught).  The other fields only
\* record what happened, for the properties:
\*   seq        trades submitted before the call (it tells calls apart)
\*   created    the call inserted the history record
\*   finalized  number of terminal updates the call made to the record
\*   fetched    trade indexes whose order book was requested
\*   failedAt   index of the trade that threw (0 when none did)
\*   stmts      statements done by the last executeTradeTransaction
\*   checkedBid best bid that validateSellOrder used for the current trade
\*   raised     the error as it was first thrown, before any catch block
\*   reexecute  the second argument of the call
NewCall(plan, seq) ==
  [plan |-> plan, idx |-> 0, sim |-> Null, error |-> Null,
   seq |-> seq, created |-> FALSE, finalized |-> 0, fetched |-> {},
   failedAt |-> 0, stmts |-> 0, checkedBid |-> NoPrice, raised |-> Null,
   reexecute |-> FALSE]

Init ==
  /\ executionHistory = <<>>
  /\ orders = {}
  /\ executions = {}
  /\ pc = [p \in Procs |-> "idle"]
  /\ call = [p \in Procs |-> Null]
  /\ tx = [p \in Procs |-> NoTx]
  /\ result = [p \in Procs |-> NoResult]
  /\ submitted = 0
  /\ bidDropped = FALSE
  /\ input = Null
  /\ output = Null

UsedOrderIds ==
  {o.id : o \in orders} \cup UNION {{o.id : o \in tx[q].orders} : q \in Procs}
UsedExecutionIds ==
  {e.id : e \in executions}
    \cup UNION {{e.id : e \in tx[q].executions} : q \in Procs}

Running(p) == pc[p] \notin {"idle", "done", "crashed"}
CurrentTrade(p) == TradeAt(call[p].plan, call[p].idx)

\* A trade of the running call threw e: executeTrade's catch, then the loop's.
TradeThrows(p, e, fetchedNow) ==
  LET next == AfterTradeThrow(call[p].plan, call[p].idx)
  IN /\ pc' = [pc EXCEPT ![p] = next.pc]
     /\ call' = [call EXCEPT ![p].idx = next.idx,
                             ![p].sim = Null,
                             ![p].checkedBid = NoPrice,
                             ![p].error = IF next.pc = "failing"
                                          THEN executeTradeCatch(e)
                                          ELSE call[p].error,
                             ![p].raised = IF next.pc = "failing"
                                           THEN e ELSE call[p].raised,
                             ![p].failedAt = IF call[p].failedAt = 0
                                             THEN call[p].idx
                                             ELSE call[p].failedAt,
                             ![p].fetched = call[p].fetched \cup fetchedNow]

\* A trade of the running call returned.
TradeReturns(p) ==
  LET next == AfterTradeDone(call[p].plan, call[p].idx)
  IN /\ pc' = [pc EXCEPT ![p] = next.pc]
     /\ call' = [call EXCEPT ![p].idx = next.idx, ![p].sim = Null,
                             ![p].checkedBid = NoPrice]

----------------------------------------------------------------------------
(* TradeRunnerService.executeTradePlan.                                    *)

\* Entry and step 1, the idempotency check, of the call
\* executeTradePlan(plan, reexecute) that the CLI command makes.  The method
\* declares the parameter plan only: the second argument is not read.
SubmitWith(p, plan, plans, reexecute) ==
  /\ pc[p] \in {"idle", "done", "crashed"}
  /\ plan \in plans
  /\ submitted + Len(plan.trades) <= MaxTrades
  /\ submitted' = submitted + Len(plan.trades)
  /\ call' = [call EXCEPT ![p] = [NewCall(plan, submitted)
                                    EXCEPT !.reexecute = reexecute]]
  /\ IF checkPlanExists(executionHistory, plan.planId)
     THEN /\ pc' = [pc EXCEPT ![p] = "done"]
          /\ result' = [result EXCEPT ![p] = Threw(Err("DuplicatePlan"))]
     ELSE /\ pc' = [pc EXCEPT ![p] = "create"]
          /\ result' = [result EXCEPT ![p] = NoResult]
  /\ UNCHANGED <<executionHistory, orders, executions, tx, bidDropped>>
  /\ UNCHANGED <<input, output>>

\* A call without the --reexecute flag.
Submit(p, plan, plans) == SubmitWith(p, plan, plans, FALSE)

\* A call with the --reexecute flag.
SubmitReexecute(p, plan, plans) == SubmitWith(p, plan, plans, TRUE)

\* Step 2, the insert of the running record; outside the try block, so that a
\* refused insert leaves executeTradePlan with the database's own error.
CreateHistory(p) ==
  /\ pc[p] = "create"
  /\ LET plan == call[p].plan
         next == AfterCreate(plan)
     IN IF PrimaryKeyConflict(executionHistory, plan.planId)
        THEN /\ pc' = [pc EXCEPT ![p] = "done"]
             /\ result' = [result EXCEPT ![p] = Threw(Err("UniqueViolation"))]
             /\ UNCHANGED <<executionHistory, call>>
        ELSE /\ executionHistory' =
                  createExecutionHistory(executionHistory,
                    [planId |-> plan.planId, planJson |-> plan,
                     status |-> "running"])
             /\ pc' = [pc EXCEPT ![p] = next.pc]
             /\ call' = [call EXCEPT ![p].idx = next.idx,
                                     ![p].error = next.error,
                                     ![p].raised = next.error,
                                     ![p].created = TRUE]
             /\ UNCHANGED result
  /\ UNCHANGED <<orders, executions, tx, submitted, bidDropped>>
  /\ UNCHANGED <<input, output>>

\* executeTrade step 1 for a MARKET SELL: validateSellOrder.
ValidateSell(p) ==
  /\ pc[p] = "validate"
  /\ \E orderBook \in Books :
       LET v == validateSellOrder(CurrentTrade(p), orderBook, orders, executions)
       IN IF v.kind = "throw"
          THEN TradeThrows(p, v.error, {call[p].idx})
          ELSE /\ pc' = [pc EXCEPT ![p] = "simulate"]
               /\ call' = [call EXCEPT ![p].fetched = @ \cup {call[p].idx},
                                       ![p].checkedBid = orderBook.bids[1]]
  /\ UNCHANGED <<executionHistory, orders, executions, tx, result, submitted,
                 bidDropped>>
  /\ UNCHANGED <<input, output>>

\* executeTrade step 2: the fill simulation on a fresh order book.
Simulate(p) ==
  /\ pc[p] = "simulate"
  /\ \E orderBook \in Books :
       LET sim == simulateFill(CurrentTrade(p), orderBook, orders, executions)
       IN IF sim.kind = "throw"
          THEN TradeThrows(p, sim.error, {call[p].idx})
          ELSE /\ pc' = [pc EXCEPT ![p] = IF sim.kind = "nofill"
                                           THEN "createOrder" ELSE "txOrder"]
               /\ call' = [call EXCEPT ![p].sim = sim, ![p].stmts = 0,
                                       ![p].fetched = @ \cup {call[p].idx}]
  /\ UNCHANGED <<executionHistory, orders, executions, tx, result, submitted,
                 bidDropped>>
  /\ UNCHANGED <<input, output>>

\* adapter.getOrderBook rejects (market not found, network): a foreign error.
FetchFails(p) ==
  /\ pc[p] \in {"validate", "simulate"}
  /\ TradeThrows(p, Err("MarketDataFailure"), {call[p].idx})
  /\ UNCHANGED <<executionHistory, orders, executions, tx, result, submitted,
                 bidDropped>>
  /\ UNCHANGED <<input, output>>

\* orders.plan_id references execution_history.plan_id: an order can only be
\* inserted while the record of its plan id exists.
PlanIdReferenced(p) == call[p].plan.planId \in DOMAIN executionHistory

\* executeTrade step 3, LIMIT order that did not cross: repository.createOrder.
CreateOrder(p) ==
  /\ pc[p] = "createOrder"
  /\ PlanIdReferenced(p)
  /\ orders' = orders \cup
       {WithId(NewOrder(call[p].plan.planId, CurrentTrade(p), "open"),
               FreshId(UsedOrderIds))}
  /\ TradeReturns(p)
  /\ UNCHANGED <<executionHistory, executions, tx, result, submitted, bidDropped>>
  /\ UNCHANGED <<input, output>>

\* executeTradeTransaction, statement 1: insert the order as open.
TxInsertOrder(p) ==
  /\ pc[p] = "txOrder"
  /\ PlanIdReferenced(p)
  /\ tx' = [tx EXCEPT ![p].orders =
              {WithId(NewOrder(call[p].plan.planId, CurrentTrade(p), "open"),
                      FreshId(UsedOrderIds))}]
  /\ pc' = [pc EXCEPT ![p] = "txExecution"]
  /\ call' = [call EXCEPT ![p].stmts = 1]
  /\ UNCHANGED <<executionHistory, orders, executions, result, submitted,
                 bidDropped>>
  /\ UNCHANGED <<input, output>>

\* executeTradeTransaction, statement 2: insert the execution.
TxInsertExecution(p) ==
  /\ pc[p] = "txExecution"
  /\ \E o \in tx[p].orders :
       tx' = [tx EXCEPT ![p].executions =
                {[id |-> FreshId(UsedExecutionIds), orderId |-> o.id,
                  quantity |-> call[p].sim.quantity,
                  price |-> call[p].sim.fillPrice]}]
  /\ pc' = [pc EXCEPT ![p] = "txStatus"]
  /\ call' = [call EXCEPT ![p].stmts = 2]
  /\ UNCHANGED <<executionHistory, orders, executions, result, submitted,
                 bidDropped>>
  /\ UNCHANGED <<input, output>>

\* executeTradeTransaction, statement 3: set the order filled.
TxUpdateStatus(p) ==
  /\ pc[p] = "txStatus"
  /\ \E o \in tx[p].orders :
       tx' = [tx EXCEPT ![p].orders = SetOrderStatus(@, o.id, "filled")]
  /\ pc' = [pc EXCEPT ![p] = "txCommit"]
  /\ call' = [call EXCEPT ![p].stmts = 3]
  /\ UNCHANGED <<executionHistory, orders, executions, result, submitted,
                 bidDropped>>
  /\ UNCHANGED <<input, output>>

\* The callback returned: COMMIT.
TxCommit(p) ==
  /\ pc[p] = "txCommit"
  /\ orders' = AfterCommit(orders, tx[p].orders)
  /\ executions' = AfterCommit(executions, tx[p].executions)
  /\ tx' = [tx EXCEPT ![p] = NoTx]
  /\ bidDropped' = (bidDropped \/ (/\ call[p].checkedBid # NoPrice
                                    /\ call[p].sim.fillPrice < call[p].checkedBid))
  /\ TradeReturns(p)
  /\ UNCHANGED <<executionHistory, result, submitted>>
  /\ UNCHANGED <<input, output>>

\* A statement of step 3 is refused by the database: the open transaction is
\* rolled back and the error reaches executeTrade's catch as a foreign error.
WriteFails(p) ==
  /\ pc[p] \in {"createOrder", "txOrder", "txExecution", "txStatus", "txCommit"}
  /\ orders' = AfterRollback(orders, tx[p].orders)
  /\ executions' = AfterRollback(executions, tx[p].executions)
  /\ tx' = [tx EXCEPT ![p] = NoTx]
  /\ TradeThrows(p, Err("PersistenceFailure"), {})
  /\ UNCHANGED <<executionHistory, result, submitted, bidDropped>>
  /\ UNCHANGED <<input, output>>

\* Steps 4 and 5: generateRunSummary, then the record is set completed.
Complete(p) ==
  /\ pc[p] = "summary"
  /\ LET summary == generateRunSummary(call[p].plan, orders, executions)
     IN /\ executionHistory' =
             completeExecutionHistory(executionHistory, call[p].plan.planId,
                                      summary, "completed")
        /\ result' = [result EXCEPT ![p] = Returned(summary)]
  /\ pc' = [pc EXCEPT ![p] = "done"]
  /\ call' = [call EXCEPT ![p].finalized = @ + 1]
  /\ UNCHANGED <<orders, executions, tx, submitted, bidDropped>>
  /\ UNCHANGED <<input, output>>

\* The catch block: the record is set failed and the error is rethrown.
Fail(p) ==
  /\ pc[p] = "failing"
  /\ executionHistory' =
       failExecutionHistory(executionHistory, call[p].plan.planId, call[p].error)
  /\ result' = [result EXCEPT ![p] = Threw(call[p].error)]
  /\ pc' = [pc EXCEPT ![p] = "done"]
  /\ call' = [call EXCEPT ![p].finalized = @ + 1]
  /\ UNCHANGED <<orders, executions, tx, submitted, bidDropped>>
  /\ UNCHANGED <<input, output>>

\* The process dies in the middle of a call; the database rolls back the
\* transaction its connection had open.
Crash(p) ==
  /\ Running(p)
  /\ orders' = AfterRollback(orders, tx[p].orders)
  /\ executions' = AfterRollback(executions, tx[p].executions)
  /\ tx' = [tx EXCEPT ![p] = NoTx]
  /\ pc' = [pc EXCEPT ![p] = "crashed"]
  /\ call' = [call EXCEPT ![p].sim = Null, ![p].checkedBid = NoPrice]
  /\ UNCHANGED <<executionHistory, result, submitted, bidDropped>>
  /\ UNCHANGED <<input, output>>

Step(p) ==
  \/ CreateHistory(p)
  \/ FetchFails(p)
  \/ WriteFails(p)
  \/ ValidateSell(p)
  \/ Simulate(p)
  \/ CreateOrder(p)
  \/ TxInsertOrder(p)
  \/ TxInsertExecution(p)
  \/ TxUpdateStatus(p)
  \/ TxCommit(p)
  \/ Fail(p)
  \/ Complete(p)

----------------------------------------------------------------------------
(* Specifications.                                                         *)

\* One process: plans are submitted one after the other (the CLI model).
Next ==
  \/ \E plan \in Plans : Submit("A", plan, Plans)
  \/ Step("A")

Spec == Init /\ [][Next]_vars

\* The same, and a call that has started keeps running until it returns or
\* throws: every await of the code resolves or rejects.
FairSpec == Spec /\ WF_vars(Step("A"))

\* One process that may die at any await of a call.
NextCrash ==
  \/ \E plan \in Plans : Submit("A", plan, Plans)
  \/ Step("A")
  \/ Crash("A")

SpecCrash == Init /\ [][NextCrash]_vars

\* Two processes (two CLI invocations) that run at the same time and submit
\* plans under one and the same plan id.
RacePlans == {plan \in Plans : plan.planId = "P1"}

NextRace ==
  \E p \in Procs :
    \/ \E plan \in RacePlans : Submit(p, plan, RacePlans)
    \/ Step(p)

SpecRace == Init /\ [][NextRace]_vars

\* The rows of a child table that are left when the rows of the parent table
\* with the given keys are deleted and nothing cascades.
OnDeleteCascade_NoAction(children, column, deleted) == children

\* references(..., { onDelete: 'cascade' }): the rows of a child table that
\* are left when the rows of the parent table with the given keys are deleted.
OnDeleteCascade(children, column, deleted) ==
  {child \in children : child[column] \notin deleted}

\* db.delete(executionHistory).where(eq(executionHistory.planId, planId)).
\* The delete waits for open transactions that inserted orders of the plan.
DeleteHistory(planId) ==
  /\ planId \in DOMAIN executionHistory
  /\ \A q \in Procs : \A o \in tx[q].orders : o.planId # planId
  /\ executionHistory' =
       [k \in DOMAIN executionHistory \ {planId} |-> executionHistory[k]]
  /\ orders' = OnDeleteCascade(orders, "planId", {planId})
  /\ executions' =
       OnDeleteCascade(executions, "orderId",
         {o.id : o \in orders \ OnDeleteCascade(orders, "planId", {planId})})
  /\ UNCHANGED <<pc, call, tx, result, submitted, bidDropped, input, output>>

\* The delete of one order row, done by hand while no call is running.
DeleteOrder(orderId) ==
  /\ \A p \in Procs : ~Running(p)
  /\ orderId \in {o.id : o \in orders}
  /\ orders' = {o \in orders : o.id # orderId}
  /\ executions' = OnDeleteCascade(executions, "orderId", {orderId})
  /\ UNCHANGED <<executionHistory, pc, call, tx, result, submitted, bidDropped,
                 input, output>>

\* One process that runs paper plans, and rows that are deleted by hand: a
\* history record at any time, an order between two calls.
PaperPlans == {plan \in Plans : plan.mode = "paper"}

NextDelete ==
  \/ \E plan \in PaperPlans : Submit("A", plan, PaperPlans)
  \/ Step("A")
  \/ \E planId \in PlanIds : DeleteHistory(planId)
  \/ \E orderId \in 1 .. MaxTrades : DeleteOrder(orderId)

SpecDelete == Init /\ [][NextDelete]_vars

\* Two processes that run plans of their own at the same time: the position
\* lookups of one (SELL gate, LIMIT SELL simulation, run summary) happen while
\* the other has a transaction open.  A runs any plan under P1, B a plan of
\* one SELL under P2.
PlansOf(p) ==
  IF p = "A"
  THEN {plan \in PaperPlans : plan.planId = "P1"}
  ELSE {plan \in PaperPlans : /\ plan.planId = "P2"
                               /\ Len(plan.trades) = 1
                               /\ plan.trades[1].side = "SELL"}

NextConcurrent ==
  \E p \in Procs :
    \/ \E plan \in PlansOf(p) : Submit(p, plan, PlansOf(p))
    \/ Step(p)

SpecConcurrent == Init /\ [][NextConcurrent]_vars

\* Step 4 or 5 rejects after every trade has returned: a select of
\* generateRunSummary or the update of completeExecutionHistory is refused by
\* the database.  Both are inside the try block of executeTradePlan, so the
\* catch marks the record failed with the database's own error.
SummaryFails(p) ==
  /\ pc[p] = "summary"
  /\ pc' = [pc EXCEPT ![p] = "failing"]
  /\ call' = [call EXCEPT ![p].error = Err("PersistenceFailure"),
                          ![p].raised = Err("PersistenceFailure")]
  /\ UNCHANGED <<executionHistory, orders, executions, tx, result, submitted,
                 bidDropped>>
  /\ UNCHANGED <<input, output>>

\* One process, and the database may also refuse the statements that follow
\* the last trade.
NextSummaryFault ==
  \/ \E plan \in Plans : Submit("A", plan, Plans)
  \/ Step("A")
  \/ SummaryFails("A")

SpecSummaryFault == Init /\ [][NextSummaryFault]_vars

\* One process whose calls are made with or without the --reexecute flag.
NextReexecute ==
  \/ \E plan \in Plans : Submit("A", plan, Plans)
  \/ \E plan \in Plans : SubmitReexecute("A", plan, Plans)
  \/ Step("A")

SpecReexecute == Init /\ [][NextReexecute]_vars

----------------------------------------------------------------------------
(* PaperExecutor.executeTrade applied on its own to drawn arguments.       *)

\* Top-of-book prices as the market-data API delivers them: strings, read
\* with parseFloat, so a string that is not a number arrives as NaN.
FeedPrices == BookPrices \cup {NaN}
FeedLevels == {<<>>} \cup {<<price>> : price \in FeedPrices}
FeedBooks == [bids : FeedLevels, asks : FeedLevels]

\* The position tables before the call: empty, or one filled BUY of an
\* earlier plan that holds size / LimitTick tokens.
HeldBuy ==
  [marketTokenId |-> "T1", outcome |-> "YES", side |-> "BUY",
   orderType |-> "MARKET", size |-> PlanSize, price |-> NoPrice]
HeldTables ==
  {[orders |-> {}, executions |-> {}],
   [orders |-> {WithId(NewOrder("P1", HeldBuy, "filled"), 1)},
    executions |-> {[id |-> 1, orderId |-> 1,
                     quantity |-> Divide(PlanSize, LimitTick),
                     price |-> LimitTick]}]}

\* What one executeTrade call throws and the tables it leaves, when every
\* fetch returns orderBook and the database accepts every statement.
executeTrade(planId, trade, orderBook, ords, execs) ==
  LET gate == IF NeedsSellGate(trade)
              THEN validateSellOrder(trade, orderBook, ords, execs)
              ELSE Pass
      sim == simulateFill(trade, orderBook, ords, execs)
      orderId == FreshId({o.id : o \in ords})
      executionId == FreshId({e.id : e \in execs})
  IN IF gate.kind = "throw"
     THEN [thrown |-> executeTradeCatch(gate.error),
           orders |-> ords, executions |-> execs]
     ELSE IF sim.kind = "throw"
     THEN [thrown |-> executeTradeCatch(sim.error),
           orders |-> ords, executions |-> execs]
     ELSE IF sim.kind = "nofill"
     THEN [thrown |-> Null,
           orders |-> ords \cup {WithId(NewOrder(planId, trade, "open"), orderId)},
           executions |-> execs]
     ELSE [thrown |-> Null,
           orders |-> ords \cup {WithId(NewOrder(planId, trade, "filled"), orderId)},
           executions |-> execs \cup
             {[id |-> executionId, orderId |-> orderId,
               quantity |-> sim.quantity, price |-> sim.fillPrice]}]

InitFeed ==
  /\ executionHistory = <<>>
  /\ orders = {}
  /\ executions = {}
  /\ pc = [p \in Procs |-> "idle"]
  /\ call = [p \in Procs |-> Null]
  /\ tx = [p \in Procs |-> NoTx]
  /\ result = [p \in Procs |-> NoResult]
  /\ submitted = 0
  /\ bidDropped = FALSE
  /\ input \in [trade : Trades, orderBook : FeedBooks, tables : HeldTables]
  /\ output = Null

ApplyExecuteTrade ==
  /\ output = Null
  /\ output' = executeTrade("P2", input.trade, input.orderBook,
                            input.tables.orders, input.tables.executions)
  /\ UNCHANGED <<executionHistory, orders, executions, pc, call, tx, result,
                 submitted, bidDropped, input>>

NextFeed == ApplyExecuteTrade

SpecFeed == InitFeed /\ [][NextFeed]_vars

----------------------------------------------------------------------------
(* ExecutorRepository.calculatePosition applied on its own to drawn fills. *)

\* Longest list of fills drawn.
MaxFills == 2

\* Fills as they are stored: a quantity in tokens and a price, here in
\* hundredths of a dollar (0.40 and 0.50); the aggregation does not depend
\* on the unit of the price.
FillQuantities == {50, 100}
FillPrices == {40, 50}
FillOutcomes == {"YES", "NO"}
FillInputs ==
  [side : Sides, quantity : FillQuantities, price : FillPrices,
   outcome : FillOutcomes]
FillLists == UNION {[1 .. n -> FillInputs] : n \in 0 .. MaxFills}

\* The filled orders and the executions that hold a list of fills, in the
\* order of the list.
OrdersOfFills(fills) ==
  {[id |-> i, planId |-> "P1", marketTokenId |-> "T1",
    outcome |-> fills[i].outcome, side |-> fills[i].side,
    orderType |-> "MARKET", size |-> PlanSize, price |-> NoPrice,
    status |-> "filled", mode |-> "paper"] : i \in DOMAIN fills}
ExecutionsOfFills(fills) ==
  {[id |-> i, orderId |-> i, quantity |-> fills[i].quantity,
    price |-> fills[i].price] : i \in DOMAIN fills}

InitPosition ==
  /\ executionHistory = <<>>
  /\ orders = {}
  /\ executions = {}
  /\ pc = [p \in Procs |-> "idle"]
  /\ call = [p \in Procs |-> Null]
  /\ tx = [p \in Procs |-> NoTx]
  /\ result = [p \in Procs |-> NoResult]
  /\ submitted = 0
  /\ bidDropped = FALSE
  /\ input \in [fills : FillLists]
  /\ output = Null

ApplyCalculatePosition ==
  /\ output = Null
  /\ output' = [position |->
                  calculatePosition(OrdersOfFills(input.fills),
                                    ExecutionsOfFills(input.fills),
                                    "T1", "YES", "paper")]
  /\ UNCHANGED <<executionHistory, orders, executions, pc, call, tx, result,
                 submitted, bidDropped, input>>

NextPosition == ApplyCalculatePosition

SpecPosition == InitPosition /\ [][NextPosition]_vars

----------------------------------------------------------------------------
(* ExecutorRepository.calculatePosition applied on its own to drawn tables *)
(* that hold open orders and orders of the other outcome and mode next to  *)
(* the fills of the position asked for.                                    *)

HeldRows ==
  [side : Sides, outcome : FillOutcomes, status : {"open", "filled"},
   mode : Modes, quantity : FillQuantities]
HeldRowLists == UNION {[1 .. n -> HeldRows] : n \in 0 .. MaxFills}

OrdersOfHeld(rows) ==
  {[id |-> i, planId |-> "P1", marketTokenId |-> "T1",
    outcome |-> rows[i].outcome, side |-> rows[i].side,
    orderType |-> IF rows[i].status = "open" THEN "LIMIT" ELSE "MARKET",
    size |-> PlanSize,
    price |-> IF rows[i].status = "open" THEN LimitTick ELSE NoPrice,
    status |-> rows[i].status, mode |-> rows[i].mode] : i \in DOMAIN rows}

\* The fill of every filled order: its quantity at 0.40 for a BUY and at 0.50
\* for a SELL.
ExecutionsOfHeld(rows) ==
  {[id |-> i, orderId |-> i, quantity |-> rows[i].quantity,
    price |-> IF rows[i].side = "BUY" THEN 40 ELSE 50] :
     i \in {j \in DOMAIN rows : rows[j].status = "filled"}}

InitHeld ==
  /\ executionHistory = <<>>
  /\ orders = {}
  /\ executions = {}
  /\ pc = [p \in Procs |-> "idle"]
  /\ call = [p \in Procs |-> Null]
  /\ tx = [p \in Procs |-> NoTx]
  /\ result = [p \in Procs |-> NoResult]
  /\ submitted = 0
  /\ bidDropped = FALSE
  /\ input \in [held : HeldRowLists]
  /\ output = Null

ApplyCalculatePositionHeld ==
  /\ output = Null
  /\ output' = [position |->
                  calculatePosition(OrdersOfHeld(input.held),
                                    ExecutionsOfHeld(input.held),
                                    "T1", "YES", "paper")]
  /\ UNCHANGED <<executionHistory, orders, executions, pc, call, tx, result,
                 submitted, bidDropped, input>>

NextHeld == ApplyCalculatePositionHeld

SpecHeld == InitHeld /\ [][NextHeld]_vars

----------------------------------------------------------------------------
(* position-calculator.validateSellPosition applied on its own to drawn    *)
(* fills and a drawn required quantity.  validateSellOrder passes          *)
(* size / parseFloat(price) unchecked, so the quantity may be NaN.         *)

RequiredQuantities == FillQuantities \cup {150, NaN}

InitValidate ==
  /\ executionHistory = <<>>
  /\ orders = {}
  /\ executions = {}
  /\ pc = [p \in Procs |-> "idle"]
  /\ call = [p \in Procs |-> Null]
  /\ tx = [p \in Procs |-> NoTx]
  /\ result = [p \in Procs |-> NoResult]
  /\ submitted = 0
  /\ bidDropped = FALSE
  /\ input \in [fills : FillLists, requiredQuantity : RequiredQuantities]
  /\ output = Null

ApplyValidateSellPosition ==
  /\ output = Null
  /\ output' = [validation |->
                  validateSellPosition(OrdersOfFills(input.fills),
                                       ExecutionsOfFills(input.fills),
                                       "T1", "YES", "paper",
                                       input.requiredQuantity)]
  /\ UNCHANGED <<executionHistory, orders, executions, pc, call, tx, result,
                 submitted, bidDropped, input>>

NextValidate == ApplyValidateSellPosition

SpecValidate == InitValidate /\ [][NextValidate]_vars

----------------------------------------------------------------------------
(* TradeRunnerService.generateRunSummary applied on its own to drawn       *)
(* tables: at most MaxFills orders of two plans on three instrument and    *)
(* outcome pairs, each one open or filled.                                 *)

SummaryKeys == {<<"T1", "YES">>, <<"T1", "NO">>, <<"T2", "YES">>}
SummaryRows ==
  [planId : PlanIds, key : SummaryKeys, side : Sides,
   status : {"open", "filled"}]
SummaryRowLists == UNION {[1 .. n -> SummaryRows] : n \in 1 .. MaxFills}

\* The order stored for a drawn row: a LIMIT order that rests open or a
\* MARKET order that filled.
OrdersOfRows(rows) ==
  {[id |-> i, planId |-> rows[i].planId, marketTokenId |-> rows[i].key[1],
    outcome |-> rows[i].key[2], side |-> rows[i].side,
    orderType |-> IF rows[i].status = "open" THEN "LIMIT" ELSE "MARKET",
    size |-> PlanSize,
    price |-> IF rows[i].status = "open" THEN LimitTick ELSE NoPrice,
    status |-> rows[i].status, mode |-> "paper"] : i \in DOMAIN rows}

\* The fill of every filled order: BUY 100 @ 0.40, SELL 50 @ 0.50.
ExecutionsOfRows(rows) ==
  {[id |-> i, orderId |-> i,
    quantity |-> IF rows[i].side = "BUY" THEN 100 ELSE 50,
    price |-> IF rows[i].side = "BUY" THEN 40 ELSE 50] :
     i \in {j \in DOMAIN rows : rows[j].status = "filled"}}

\* The plan P1 whose run ended with the rows drawn for it.
PlanOfRows(rows) ==
  [planId |-> "P1", mode |-> "paper",
   trades |-> [i \in 1 .. Cardinality({j \in DOMAIN rows : rows[j].planId = "P1"}) |->
                 CHOOSE trade \in
                   {[marketTokenId |-> o.marketTokenId, outcome |-> o.outcome,
                     side |-> o.side, orderType |-> o.orderType,
                     size |-> o.size, price |-> o.price] :
                      o \in {x \in OrdersOfRows(rows) :
                               /\ x.planId = "P1"
                               /\ Cardinality({j \in 1 .. x.id :
                                                 rows[j].planId = "P1"}) = i}} :
                   TRUE]]

InitSummary ==
  /\ executionHistory = <<>>
  /\ orders = {}
  /\ executions = {}
  /\ pc = [p \in Procs |-> "idle"]
  /\ call = [p \in Procs |-> Null]
  /\ tx = [p \in Procs |-> NoTx]
  /\ result = [p \in Procs |-> NoResult]
  /\ submitted = 0
  /\ bidDropped = FALSE
  /\ input \in {[rows |-> rows] :
                  rows \in {r \in SummaryRowLists :
                              \E i \in DOMAIN r : r[i].planId = "P1"}}
  /\ output = Null

ApplyGenerateRunSummary ==
  /\ output = Null
  /\ output' = [summary |->
                  generateRunSummary(PlanOfRows(input.rows),
                                     OrdersOfRows(input.rows),
                                     ExecutionsOfRows(input.rows))]
  /\ UNCHANGED <<executionHistory, orders, executions, pc, call, tx, result,
                 submitted, bidDropped, input>>

NextSummary == ApplyGenerateRunSummary

SpecSummary == InitSummary /\ [][NextSummary]_vars

----------------------------------------------------------------------------
(* Properties.                                                             *)

HasRecord(planId) == planId \in DOMAIN executionHistory
StatusOf(planId) == executionHistory[planId].status

\* This step is the entry of a new executeTradePlan call made by process p.
SubmittedBy(p) == submitted' # submitted /\ call'[p] # call[p]

\* C1: a call of executeTradePlan made for a plan id that already has an
\* execution history record (running, completed or failed) throws
\* DuplicatePlan at once and changes no table: no order, no fill, no record.
C1_DuplicateRejected ==
  [][\A p \in Procs :
       (SubmittedBy(p) /\ HasRecord(call'[p].plan.planId))
         => /\ pc'[p] = "done"
            /\ result'[p] = Threw(Err("DuplicatePlan"))
            /\ orders' = orders
            /\ executions' = executions
            /\ executionHistory' = executionHistory]_vars

\* A call was rejected as a duplicate of a plan whose first run had failed.
C1_Witness ==
  \E p \in Procs :
    /\ pc[p] = "done"
    /\ result[p] = Threw(Err("DuplicatePlan"))
    /\ HasRecord(call[p].plan.planId)
    /\ StatusOf(call[p].plan.planId) = "failed"


----------------------------------------------------------------------------
(* Two processes and one new plan id.                                      *)

\* The step is one of process p.
StepOf(p) ==
  \/ pc'[p] # pc[p]
  \/ call'[p] # call[p]
  \/ result'[p] # result[p]
  \/ tx'[p] # tx[p]

\* The call of p did not insert the record of its plan id: another call did.
LostTheInsert(p) == call[p] # Null /\ ~call[p].created

\* What holds of C2 whatever the interleaving: the call that did not insert the
\* record runs no trade (no order book fetched, no row written, no
\* transaction opened), ends with an error and leaves all three tables, the
\* winner's record included, as they were.
LoserWritesNothing ==
  /\ [](\A p \in Procs :
          LostTheInsert(p) =>
            /\ pc[p] \in {"create", "done"}
            /\ call[p].idx = 0
            /\ call[p].fetched = {}
            /\ tx[p] = NoTx
            /\ pc[p] = "done" =>
                 /\ result[p].outcome = "threw"
                 /\ result[p].error.kind \in {"DuplicatePlan", "UniqueViolation"})
  /\ [][\A p \in Procs :
          (StepOf(p) /\ call'[p] # Null /\ ~call'[p].created)
            => /\ executionHistory' = executionHistory
               /\ orders' = orders
               /\ executions' = executions]_vars

\* C2: when two processes call executeTradePlan at the same time with the same
\* new plan id, one record is created, only the process whose insert succeeded
\* executes trades, and the other one writes nothing, leaves the winner's
\* record alone and fails with DuplicatePlan.
C2_LoserFailsWithDuplicatePlan ==
  /\ [](\A p \in Procs :
          LostTheInsert(p) =>
            /\ pc[p] \in {"create", "done"}
            /\ call[p].idx = 0
            /\ call[p].fetched = {}
            /\ tx[p] = NoTx
            /\ pc[p] = "done" => result[p] = Threw(Err("DuplicatePlan")))
  /\ [][\A p \in Procs :
          (StepOf(p) /\ call'[p] # Null /\ ~call'[p].created)
            => /\ executionHistory' = executionHistory
               /\ orders' = orders
               /\ executions' = executions]_vars

----------------------------------------------------------------------------
(* The execution history record.                                           *)

Terminal == {"completed", "failed"}

\* C3: the status of a plan id moves absent -> running -> completed or
\* absent -> running -> failed only: a record appears in running, it never
\* disappears, and a completed or failed record never changes status again.
C3_StatusMoves ==
  [][\A k \in PlanIds :
       /\ (k \notin DOMAIN executionHistory /\ k \in DOMAIN executionHistory')
            => executionHistory'[k].status = "running"
       /\ k \in DOMAIN executionHistory
            => /\ k \in DOMAIN executionHistory'
               /\ \/ executionHistory'[k].status = executionHistory[k].status
                  \/ /\ executionHistory[k].status = "running"
                     /\ executionHistory'[k].status \in Terminal]_vars

\* One plan id went to completed and another one to failed.
C3_Witness ==
  \E k1, k2 \in PlanIds :
    /\ HasRecord(k1) /\ StatusOf(k1) = "completed"
    /\ HasRecord(k2) /\ StatusOf(k2) = "failed"

----------------------------------------------------------------------------
(* The loop over the trades of a plan.                                     *)

\* Order row o is the row that executeTrade writes for this trade of the plan.
IsOrderOf(o, planId, trade) ==
  /\ o.planId = planId
  /\ o.marketTokenId = trade.marketTokenId
  /\ o.outcome = trade.outcome
  /\ o.side = trade.side
  /\ o.orderType = trade.orderType
  /\ o.size = trade.size
  /\ o.price = trade.price

\* The i-th order of a set in the order of creation (ids grow with time).
NthOrder(ords, i) ==
  CHOOSE o \in ords : Cardinality({x \in ords : x.id < o.id}) = i - 1

FillsOf(o) == {e \in executions : e.orderId = o.id}

RowsSeenFor(trade) ==
  PositionRows(orders, executions, trade.marketTokenId, trade.outcome, "paper")

\* C6: the trades of a plan run one at a time in array order: when trade j
\* starts, the write of every trade before it is committed and no transaction
\* is open, so that the position check of a SELL at index j reads the fill of
\* every BUY before it in the plan.
C6_OneAtATimeInOrder ==
  \A p \in Procs :
    (pc[p] \in {"validate", "simulate"}) =>
      LET plan == call[p].plan
          j == call[p].idx
          mine == getOrdersByPlanId(orders, plan.planId)
      IN /\ tx[p] = NoTx
         /\ Cardinality(mine) = j - 1
         /\ \A i \in 1 .. j - 1 :
              LET o == NthOrder(mine, i)
              IN /\ IsOrderOf(o, plan.planId, plan.trades[i])
                 /\ ( /\ o.status = "filled"
                      /\ o.side = "BUY"
                      /\ plan.trades[j].side = "SELL"
                      /\ o.marketTokenId = plan.trades[j].marketTokenId
                      /\ o.outcome = plan.trades[j].outcome )
                      => \E e \in FillsOf(o) :
                           \E r \in RowsSeenFor(plan.trades[j]) :
                             r.id = e.id /\ r.side = "BUY"

\* A plan bought and then sold at market, and the only fill there was for the
\* SELL's position check to pass is the fill of the plan's own BUY.
C6_Witness ==
  \E p \in Procs :
    /\ pc[p] = "done"
    /\ result[p].outcome = "returned"
    /\ Len(call[p].plan.trades) > 1
    /\ call[p].plan.trades[1].side = "BUY"
    /\ call[p].plan.trades[2].side = "SELL"
    /\ call[p].plan.trades[2].orderType = "MARKET"
    /\ \A o \in orders : o.planId = call[p].plan.planId /\ o.status = "filled"

----------------------------------------------------------------------------
(* executeTradeTransaction.                                                *)

InTransaction(p) == pc[p] \in {"txOrder", "txExecution", "txStatus", "txCommit"}

\* C7: executeTradeTransaction is all-or-nothing.  While it runs its rows are
\* in no table; if a statement fails or the process dies, after the order
\* insert, after the fill insert or at the status update, the tables are left
\* without the order and without the fill; when it succeeds the tables gain
\* the order, filled, and its fill in one step.
C7_AllOrNothing ==
  [][\A p \in Procs :
       InTransaction(p) =>
         \/ /\ pc'[p] \in {"failing", "crashed", "txOrder", "txExecution",
                          "txStatus", "txCommit"}
            /\ orders' = orders
            /\ executions' = executions
            /\ pc'[p] \in {"failing", "crashed"} => tx'[p] = NoTx
         \/ /\ pc[p] = "txCommit"
            /\ pc'[p] \notin {"failing", "crashed"}
            /\ tx'[p] = NoTx
            /\ \E o \in orders' \ orders :
                 \E e \in executions' \ executions :
                   /\ orders' = orders \cup {o}
                   /\ executions' = executions \cup {e}
                   /\ o.status = "filled"
                   /\ e.orderId = o.id]_vars

\* The process died inside the transaction of the first trade of a plan, after
\* the order insert: no order of the plan is in the table.
C7_Witness ==
  \E p \in Procs :
    /\ pc[p] = "crashed"
    /\ call[p].idx = 1
    /\ call[p].stmts > 0
    /\ call[p].failedAt = 0
    /\ getOrdersByPlanId(orders, call[p].plan.planId) = {}

\* C8: in every committed state an order is filled if and only if exactly one
\* fill references it, an open order has no fill, and every fill has its order.
C8_FilledIffOneFill ==
  /\ \A o \in orders :
       /\ (o.status = "filled") <=> (Cardinality(FillsOf(o)) = 1)
       /\ o.status = "open" => FillsOf(o) = {}
       /\ o.status \in {"open", "filled"}
  /\ \A e \in executions : \E o \in orders : o.id = e.orderId

\* An open order and a filled order with its fill are in the tables.
C8_Witness ==
  /\ \E o \in orders : o.status = "open"
  /\ \E o \in orders : o.status = "filled" /\ FillsOf(o) # {}

----------------------------------------------------------------------------
(* The SELL gate.                                                          *)

\* Process p is about to run the position check or the simulation of a SELL
\* on an instrument and outcome that have no fill.
SellWithoutFills(p) ==
  /\ pc[p] \in {"validate", "simulate"}
  /\ call[p].plan.trades[call[p].idx].side = "SELL"
  /\ RowsSeenFor(call[p].plan.trades[call[p].idx]) = {}

SellWithoutFillsGives(trade, orderBook) ==
  IF Len(orderBook.bids) = 0 THEN Throw(Err("NoLiquidity"))
  ELSE IF trade.orderType = "MARKET" THEN Throw(Err("InsufficientPosition"))
  ELSE IF trade.price > orderBook.bids[1] THEN NoFill
  ELSE IF orderBook.bids[1] >= ONE THEN Throw(Err("InvalidPrice"))
  ELSE Throw(Err("InsufficientPosition"))

----------------------------------------------------------------------------
(* Positions.                                                              *)

\* Sum of the BUY fill quantities minus sum of the SELL fill quantities.
NetQuantity(marketTokenId, outcome, mode) ==
  LET rows == PositionRows(orders, executions, marketTokenId, outcome, mode)
  IN SumQuantity({r \in rows : r.side = "BUY"})
       - SumQuantity({r \in rows : r.side = "SELL"})

\* C10 (as the specification states it): after any sequence of plan
\* executions and whatever order books the market data port returns, the net
\* quantity of every instrument, outcome and mode is never negative.
C10_NeverShort ==
  \A t \in Tokens, o \in Outcomes, m \in Modes : NetQuantity(t, o, m) >= 0

\* C10 (amended): the net quantity of every instrument, outcome and mode is
\* never negative as long as no MARKET SELL has filled at a best bid lower
\* than the best bid its position check had read.  The check and the fill of
\* a MARKET SELL read the order book separately: when the bid falls between
\* the two the SELL fills for more tokens than were checked and the position
\* can go short.
C10_NeverShortUnlessBidDropped ==
  ~bidDropped =>
    \A t \in Tokens, o \in Outcomes, m \in Modes : NetQuantity(t, o, m) >= 0

\* A MARKET SELL filled at a bid no lower than the one checked, and it sold
\* the whole position.
C10_Witness ==
  /\ ~bidDropped
  /\ \E o \in orders :
       /\ o.side = "SELL" /\ o.orderType = "MARKET" /\ o.status = "filled"
       /\ NetQuantity(o.marketTokenId, o.outcome, o.mode) = 0


----------------------------------------------------------------------------
(* The fill simulator.                                                     *)

\* The side of the book that a trade fills against.
OpposingSide(trade, orderBook) ==
  IF trade.side = "BUY" THEN orderBook.asks ELSE orderBook.bids

\* The limit price of the trade reaches the best price of the opposing side.
LimitReaches(trade, best) ==
  \/ trade.side = "BUY" /\ trade.price >= best
  \/ trade.side = "SELL" /\ trade.price <= best

\* The position of the trade's instrument and outcome covers size / price.
PositionCovers(trade, best) ==
  /\ RowsSeenFor(trade) # {}
  /\ NetQuantity(trade.marketTokenId, trade.outcome, "paper") > 0
  /\ NetQuantity(trade.marketTokenId, trade.outcome, "paper")
       >= Divide(trade.size, best)

\* Process p is about to simulate the fill of a LIMIT trade.
AtLimitSimulation(p) ==
  pc[p] = "simulate" /\ call[p].plan.trades[call[p].idx].orderType = "LIMIT"

\* The step of p stores the current trade as one open order and no fill.
StoresOneOpenOrder(p) ==
  /\ executions' = executions
  /\ \E o \in orders' \ orders :
       /\ orders' = orders \cup {o}
       /\ o.status = "open"
       /\ FillsOf(o)' = {}
       /\ IsOrderOf(o, call[p].plan.planId, call[p].plan.trades[call[p].idx])

\* C11 (as the specification states it): on a book with a best price a LIMIT
\* BUY fills if and only if its limit price >= best ask, a LIMIT SELL if and
\* only if its limit price <= best bid, in both cases at the best price; a
\* LIMIT order that does not cross raises no error and is stored as one open
\* order without a fill.
C11_FillsIffCrosses ==
  /\ [](\A p \in Procs :
          AtLimitSimulation(p) =>
            \A orderBook \in Books :
              LET trade == call[p].plan.trades[call[p].idx]
                  side == OpposingSide(trade, orderBook)
                  sim == simulateFill(trade, orderBook, orders, executions)
              IN Len(side) > 0 =>
                   /\ (sim.kind = "fill") <=> LimitReaches(trade, side[1])
                   /\ sim.kind = "fill" => sim.fillPrice = side[1]
                   /\ ~LimitReaches(trade, side[1]) => sim = NoFill)
  /\ [][\A p \in Procs :
          (pc[p] = "createOrder" /\ pc'[p] \notin {"createOrder", "failing"})
            => StoresOneOpenOrder(p)]_vars

\* C11 (amended): a LIMIT order fills only if it crosses (limit price >= best
\* ask for a BUY, <= best bid for a SELL).  A crossing order whose best price
\* is inside (0,1) fills at that best price, not at its limit price, except
\* that a crossing SELL whose position does not cover size / best bid fails
\* with InsufficientPosition; a crossing order whose best price is outside
\* (0,1) fails with InvalidPrice.  A LIMIT order that does not cross raises
\* no error and is stored as one open order without a fill.
C11_CrossingLimitFillsAtBest ==
  /\ [](\A p \in Procs :
          AtLimitSimulation(p) =>
            \A orderBook \in Books :
              LET trade == call[p].plan.trades[call[p].idx]
                  side == OpposingSide(trade, orderBook)
                  sim == simulateFill(trade, orderBook, orders, executions)
              IN Len(side) > 0 =>
                   IF ~LimitReaches(trade, side[1]) THEN sim = NoFill
                   ELSE IF side[1] <= 0 \/ side[1] >= ONE
                   THEN sim = Throw(Err("InvalidPrice"))
                   ELSE IF trade.side = "SELL" /\ ~PositionCovers(trade, side[1])
                   THEN sim = Throw(Err("InsufficientPosition"))
                   ELSE /\ sim.kind = "fill"
                        /\ sim.fillPrice = side[1]
                        /\ sim.quantity * side[1] = trade.size * ONE)
  /\ [][\A p \in Procs :
          (pc[p] = "createOrder" /\ pc'[p] \notin {"createOrder", "failing"})
            => StoresOneOpenOrder(p)]_vars

\* A LIMIT BUY is filled at a best ask below its limit price, and another
\* LIMIT order that did not cross is stored open.
C11_Witness ==
  /\ \E o \in orders :
       /\ o.orderType = "LIMIT" /\ o.side = "BUY" /\ o.status = "filled"
       /\ \E e \in FillsOf(o) : e.price < o.price
  /\ \E o \in orders : o.orderType = "LIMIT" /\ o.status = "open"


\* Process p is about to simulate the fill of a MARKET trade.
AtMarketSimulation(p) ==
  pc[p] = "simulate" /\ call[p].plan.trades[call[p].idx].orderType = "MARKET"

\* Process p is inside executeTrade.
InExecuteTrade(p) ==
  pc[p] \in {"validate", "simulate", "createOrder", "txOrder", "txExecution",
             "txStatus", "txCommit"}

\* The step of p ends the executeTrade call it was in.
EndsExecuteTrade(p) ==
  /\ InExecuteTrade(p)
  /\ \/ pc'[p] \in {"summary", "failing"}
     \/ call'[p].idx # call[p].idx

\* The step of p stores the current trade as one filled order with one fill
\* at the simulated price and quantity.
StoresOneFilledOrder(p) ==
  \E o \in orders' \ orders :
    /\ orders' = orders \cup {o}
    /\ o.status = "filled"
    /\ IsOrderOf(o, call[p].plan.planId, call[p].plan.trades[call[p].idx])
    /\ \E e \in executions' \ executions :
         /\ executions' = executions \cup {e}
         /\ e.orderId = o.id
         /\ e.price = call[p].sim.fillPrice
         /\ e.quantity = call[p].sim.quantity

\* C12: a MARKET BUY fills at the best ask and a MARKET SELL at the best bid
\* of the order book fetched for the fill, with quantity = size / fill price;
\* a MARKET trade ends either as one filled order with one fill or with an
\* error and no row, and no MARKET order is ever stored open.
C12_MarketFillsAtBest ==
  /\ [](\A p \in Procs :
          AtMarketSimulation(p) =>
            \A orderBook \in Books :
              LET trade == call[p].plan.trades[call[p].idx]
                  side == OpposingSide(trade, orderBook)
                  sim == simulateFill(trade, orderBook, orders, executions)
              IN /\ sim.kind \in {"fill", "throw"}
                 /\ sim.kind = "fill" =>
                      /\ Len(side) > 0
                      /\ sim.fillPrice = side[1]
                      /\ sim.quantity * sim.fillPrice = trade.size * ONE)
  /\ [](\A o \in orders :
          o.orderType = "MARKET" =>
            /\ o.status = "filled"
            /\ \E e \in FillsOf(o) :
                 /\ FillsOf(o) = {e}
                 /\ e.quantity * e.price = o.size * ONE)
  /\ [][\A p \in Procs :
          (/\ EndsExecuteTrade(p)
           /\ call[p].plan.trades[call[p].idx].orderType = "MARKET")
            => IF pc'[p] = "failing"
               THEN orders' = orders /\ executions' = executions
               ELSE StoresOneFilledOrder(p)]_vars

\* A MARKET BUY and a MARKET SELL were both stored filled, each with a fill.
C12_Witness ==
  /\ \E o \in orders :
       o.orderType = "MARKET" /\ o.side = "BUY" /\ FillsOf(o) # {}
  /\ \E o \in orders :
       o.orderType = "MARKET" /\ o.side = "SELL" /\ FillsOf(o) # {}


\* A price strictly inside (0,1).
ValidPrice(price) == price # NaN /\ 0 < price /\ price < ONE

\* The top-of-book price that a fill of the trade would use, when there is
\* one: the best opposing price of a MARKET trade that passes the SELL gate,
\* and of a LIMIT trade whose limit price reaches it.
FillWouldUse(trade, orderBook, ords, execs) ==
  LET side == OpposingSide(trade, orderBook)
  IN IF Len(side) = 0 THEN {}
     ELSE IF trade.orderType = "LIMIT"
     THEN IF LimitReaches(trade, side[1]) /\ side[1] # NaN THEN {side[1]} ELSE {}
     ELSE IF NeedsSellGate(trade)
             /\ validateSellOrder(trade, orderBook, ords, execs).kind = "throw"
     THEN {}
     ELSE {side[1]}

\* C13 (as the specification states it): every fill that executeTrade stores
\* has a price strictly inside (0,1); whenever the top-of-book price that a
\* fill would use is <= 0, >= 1 or not a number, the call fails with
\* InvalidPrice and writes no order and no fill.
C13_FillPriceInsideUnitInterval ==
  output # Null =>
    /\ \A e \in output.executions \ input.tables.executions : ValidPrice(e.price)
    /\ \A price \in FillWouldUse(input.trade, input.orderBook,
                                 input.tables.orders, input.tables.executions) :
         ~ValidPrice(price) =>
           /\ output.thrown = Err("InvalidPrice")
           /\ output.orders = input.tables.orders
           /\ output.executions = input.tables.executions

\* The same for top-of-book prices that are numbers: the property holds when
\* the feed delivers no NaN.
C13_NumericPriceInsideUnitInterval ==
  (output # Null
     /\ NaN \notin {input.orderBook.bids[i] : i \in DOMAIN input.orderBook.bids}
     /\ NaN \notin {input.orderBook.asks[i] : i \in DOMAIN input.orderBook.asks})
    => /\ \A e \in output.executions \ input.tables.executions : ValidPrice(e.price)
       /\ \A price \in FillWouldUse(input.trade, input.orderBook,
                                    input.tables.orders, input.tables.executions) :
            ~ValidPrice(price) =>
              /\ output.thrown = Err("InvalidPrice")
              /\ output.orders = input.tables.orders
              /\ output.executions = input.tables.executions


\* The call of p has ended after an error was raised inside it.
EndedWithError(p) ==
  pc[p] = "done" /\ call[p] # Null /\ call[p].raised # Null

\* An error that is not an ExecutionError: it comes from the market-data
\* adapter or from the database driver.
ForeignError(e) == e.kind \in {"MarketDataFailure", "PersistenceFailure"}

C14_FailedTradeWritesNothing ==
  [][\A p \in Procs :
       InExecuteTrade(p) =>
         /\ (orders' # orders \/ executions' # executions)
              => (EndsExecuteTrade(p) /\ pc'[p] # "failing")
         /\ pc'[p] = "failing"
              => /\ orders' = orders
                 /\ executions' = executions
                 /\ tx'[p] = NoTx]_vars

\* The second trade of a plan failed on a persistence failure after the
\* three statements of its transaction had run; the first trade's rows are
\* the only ones stored.
C14_Witness ==
  \E p \in Procs :
    /\ pc[p] = "failing"
    /\ call[p].raised = Err("PersistenceFailure")
    /\ call[p].stmts = 3
    /\ call[p].failedAt = 2
    /\ Cardinality(orders) = 1


\* C16 (as the specification states it): a call of executeTradePlan made with
\* the re-execution override for a plan id that already has a history record
\* is not rejected; it inserts a fresh record under another key and leaves
\* the record of the plan id as it was, and every order it stores carries
\* the plan id itself.
C16_ReexecutionNotRejected ==
  [][\A p \in Procs :
       /\ (SubmittedBy(p) /\ call'[p].reexecute /\ HasRecord(call'[p].plan.planId))
            => /\ pc'[p] = "create"
               /\ result'[p] # Threw(Err("DuplicatePlan"))
       /\ (pc[p] = "create" /\ call[p].reexecute /\ HasRecord(call[p].plan.planId))
            => /\ \E k \in DOMAIN executionHistory' :
                    /\ k \notin DOMAIN executionHistory
                    /\ k # call[p].plan.planId
               /\ executionHistory'[call[p].plan.planId]
                    = executionHistory[call[p].plan.planId]
       /\ (InExecuteTrade(p) /\ call[p].reexecute)
            => \A o \in orders' \ orders : o.planId = call[p].plan.planId]_vars

\* What the code does: a call made with the override is treated like any
\* other call, so for a plan id that has a record it throws DuplicatePlan at
\* once and changes no table.
ReexecutionRejected ==
  [][\A p \in Procs :
       (SubmittedBy(p) /\ call'[p].reexecute /\ HasRecord(call'[p].plan.planId))
         => /\ pc'[p] = "done"
            /\ result'[p] = Threw(Err("DuplicatePlan"))
            /\ orders' = orders
            /\ executions' = executions
            /\ executionHistory' = executionHistory]_vars


\* The orders that carry a plan id, and those of them in one status.
OrdersOfPlan(planId) == {o \in orders : o.planId = planId}
OrdersInStatus(planId, status) == {o \in OrdersOfPlan(planId) : o.status = status}

\* C17 (as the specification states it): the RunSummary returned on success
\* reports ordersPlaced = number of orders carrying the plan id, and a count
\* of the filled, open, partially filled and failed ones that equals the
\* number of those orders in that status, so that ordersPlaced = ordersFilled
\* + ordersOpen + ordersPartiallyFilled + ordersFailed.
C17_SummaryCountsAddUp ==
  \A p \in Procs :
    result[p].outcome = "returned" =>
      LET summary == result[p].summary
      IN /\ summary.ordersPlaced = Cardinality(OrdersOfPlan(summary.planId))
         /\ summary.ordersFilled
              = Cardinality(OrdersInStatus(summary.planId, "filled"))
         /\ summary.ordersPartiallyFilled
              = Cardinality(OrdersInStatus(summary.planId, "partially_filled"))
         /\ summary.ordersFailed
              = Cardinality(OrdersInStatus(summary.planId, "failed"))
         /\ "ordersOpen" \in DOMAIN summary
         /\ summary.ordersOpen
              = Cardinality(OrdersInStatus(summary.planId, "open"))
         /\ summary.ordersPlaced
              = summary.ordersFilled + summary.ordersOpen
                  + summary.ordersPartiallyFilled + summary.ordersFailed

\* What the code reports: the counts it does report are right, and the
\* orders it places but does not count are the open ones.
SummaryCountsWithoutOpen ==
  \A p \in Procs :
    result[p].outcome = "returned" =>
      LET summary == result[p].summary
      IN /\ "ordersOpen" \notin DOMAIN summary
         /\ summary.ordersPlaced = Cardinality(OrdersOfPlan(summary.planId))
         /\ summary.ordersFilled
              = Cardinality(OrdersInStatus(summary.planId, "filled"))
         /\ summary.ordersPartiallyFilled
              = Cardinality(OrdersInStatus(summary.planId, "partially_filled"))
         /\ summary.ordersFailed
              = Cardinality(OrdersInStatus(summary.planId, "failed"))
         /\ summary.ordersPlaced
              = summary.ordersFilled + summary.ordersPartiallyFilled
                  + summary.ordersFailed
                  + Cardinality(OrdersInStatus(summary.planId, "open"))

\* A returned summary whose reported counts do not add up to ordersPlaced.
SummaryCountsFallShort ==
  \E p \in Procs :
    /\ result[p].outcome = "returned"
    /\ result[p].summary.ordersPlaced
         > result[p].summary.ordersFilled
             + result[p].summary.ordersPartiallyFilled
             + result[p].summary.ordersFailed


----------------------------------------------------------------------------
(* The position aggregation.                                               *)

\* The sum, over the fills i .. Len(fills) of one side on outcome YES, of
\* the quantity (withPrice = FALSE) or of quantity x price (withPrice = TRUE).
RECURSIVE SumFrom(_, _, _, _)
SumFrom(fills, i, side, withPrice) ==
  IF i > Len(fills) THEN 0
  ELSE (IF fills[i].side = side /\ fills[i].outcome = "YES"
        THEN (IF withPrice THEN fills[i].quantity * fills[i].price
              ELSE fills[i].quantity)
        ELSE 0)
       + SumFrom(fills, i + 1, side, withPrice)

BoughtQuantity(fills) == SumFrom(fills, 1, "BUY", FALSE)
BoughtCost(fills) == SumFrom(fills, 1, "BUY", TRUE)
SoldQuantity(fills) == SumFrom(fills, 1, "SELL", FALSE)
SoldProceeds(fills) == SumFrom(fills, 1, "SELL", TRUE)

\* The fraction q equals n / d.
RatIs(q, n, d) == q.den > 0 /\ q.num * d = q.den * n

\* The fills of the example: BUY 100 @ 0.40 and BUY 50 @ 0.50.
ExampleBuys ==
  <<[side |-> "BUY", quantity |-> 100, price |-> 40, outcome |-> "YES"],
    [side |-> "BUY", quantity |-> 50, price |-> 50, outcome |-> "YES"]>>

\* C18: calculatePosition returns net quantity = sum of the BUY fill
\* quantities minus sum of the SELL fill quantities of the instrument and
\* outcome and, when the position is net long, average price = (sum of
\* quantity x price over the BUY fills) / (sum of the BUY quantities); two BUY
\* fills of 100 @ 0.40 and 50 @ 0.50 give net quantity 150 and average price
\* 65 / 150.
C18_NetQuantityAndAveragePrice ==
  output # Null =>
    LET fills == input.fills
        position == output.position
    IN /\ position = Null
            <=> \A i \in DOMAIN fills : fills[i].outcome # "YES"
       /\ position # Null =>
            /\ position.netQuantity = BoughtQuantity(fills) - SoldQuantity(fills)
            /\ position.netQuantity > 0 =>
                 RatIs(position.avgPrice, BoughtCost(fills), BoughtQuantity(fills))
       /\ fills = ExampleBuys =>
            /\ position.netQuantity = 150
            /\ RatIs(position.avgPrice, 65 * 100, 150)

\* The position of the example's two BUY fills has been computed.
C18_Witness ==
  /\ output # Null
  /\ input.fills = ExampleBuys
  /\ output.position.netQuantity = 150

\* C19: for one instrument and outcome, a BUY fill of quantity Q at price Pb
\* followed by a SELL fill of the same quantity at price Ps gives realized
\* P&L = Q x (Ps - Pb) and net quantity 0; when the sold quantity S is smaller
\* than the bought quantity, realized P&L = SELL proceeds - S x (average BUY
\* price).
C19_RealizedPnL ==
  output # Null =>
    LET fills == input.fills
        position == output.position
    IN /\ (/\ Len(fills) = 2
           /\ fills[1].side = "BUY" /\ fills[2].side = "SELL"
           /\ fills[1].outcome = "YES" /\ fills[2].outcome = "YES"
           /\ fills[1].quantity = fills[2].quantity)
            => /\ position.netQuantity = 0
               /\ RatIs(position.realizedPnL,
                        fills[1].quantity * (fills[2].price - fills[1].price), 1)
       /\ (position # Null /\ 0 < SoldQuantity(fills)
             /\ SoldQuantity(fills) < BoughtQuantity(fills))
            => RatIs(position.realizedPnL,
                     SoldProceeds(fills) * BoughtQuantity(fills)
                       - SoldQuantity(fills) * BoughtCost(fills),
                     BoughtQuantity(fills))

\* A BUY of 100 @ 0.40 followed by a SELL of 50 @ 0.50 has been aggregated:
\* 50 tokens are left and the realized P&L is 50 x (0.50 - 0.40).
C19_Witness ==
  /\ output # Null
  /\ Len(input.fills) = 2
  /\ input.fills[1] = [side |-> "BUY", quantity |-> 100, price |-> 40,
                       outcome |-> "YES"]
  /\ input.fills[2] = [side |-> "SELL", quantity |-> 50, price |-> 50,
                       outcome |-> "YES"]
  /\ output.position.netQuantity = 50
  /\ RatIs(output.position.realizedPnL, 50 * (50 - 40), 1)


----------------------------------------------------------------------------
(* Deletes.                                                                *)

\* Every order has the record of its plan id and every fill has its order.
NoOrphans ==
  /\ \A o \in orders : o.planId \in DOMAIN executionHistory
  /\ \A e \in executions : \E o \in orders : o.id = e.orderId

----------------------------------------------------------------------------
(* The execution history record.                                           *)

\* The step of p is a call of executeTradePlan rejected as DuplicatePlan.
RejectedAsDuplicate(p) ==
  SubmittedBy(p) /\ result'[p] = Threw(Err("DuplicatePlan"))

\* C21: a call of executeTradePlan rejected as DuplicatePlan leaves the stored
\* record of its plan id unchanged (status, plan payload, summary, error
\* message), and that plan id has one record before and after the call, also
\* when the payload of the rejected plan differs from the stored one.
C21_RejectedCallKeepsRecord ==
  [][\A p \in Procs :
       RejectedAsDuplicate(p) =>
         /\ call'[p].plan.planId \in DOMAIN executionHistory
         /\ DOMAIN executionHistory' = DOMAIN executionHistory
         /\ executionHistory'[call'[p].plan.planId]
              = executionHistory[call'[p].plan.planId]]_vars

\* A call was rejected as a duplicate whose plan differs from the stored
\* payload of a completed record, which still holds its summary.
C21_Witness ==
  \E p \in Procs :
    /\ pc[p] = "done"
    /\ result[p] = Threw(Err("DuplicatePlan"))
    /\ HasRecord(call[p].plan.planId)
    /\ executionHistory[call[p].plan.planId].planJson # call[p].plan
    /\ executionHistory[call[p].plan.planId].status = "completed"
    /\ executionHistory[call[p].plan.planId].summaryJson # Null


\* C22 (as the specification states it): the idempotency check and the insert
\* of the running record form one atomic step: between the check of a call
\* and its insert no other process creates a record for the plan id, so a
\* call that has passed the check finds no record when it inserts.
C22_CheckAndInsertAtomic ==
  \A p \in Procs :
    pc[p] = "create" => ~HasRecord(call[p].plan.planId)

\* What the code does: the record found by a call that is about to insert
\* was created by the other process, after this call's check.
RecordCreatedBetweenCheckAndInsert ==
  [][\A p \in Procs :
       (pc[p] = "create" /\ ~HasRecord(call[p].plan.planId)
          /\ HasRecord(call[p].plan.planId)')
         => (pc'[p] # "create"
               \/ \E q \in Procs \ {p} : pc[q] = "create" /\ pc'[q] # "create")]_vars


----------------------------------------------------------------------------
(* The MARKET SELL gate and its fill.                                      *)

\* Process p has passed the MARKET SELL gate of its current trade and has
\* not yet committed the fill.
BetweenCheckAndFill(p) ==
  /\ pc[p] \in {"simulate", "txOrder", "txExecution", "txStatus", "txCommit"}
  /\ call[p].checkedBid # NoPrice

\* The step of p commits the fill of a MARKET SELL whose two order-book
\* snapshots had the same best bid.
CommitsSellAtCheckedBid(p) ==
  /\ pc[p] = "txCommit"
  /\ pc'[p] # "failing"
  /\ call[p].checkedBid # NoPrice
  /\ call[p].sim.fillPrice = call[p].checkedBid

\* What holds for best bids that are numbers: the call writes no row between
\* the check and the fill, and when both snapshots have the same best bid the
\* filled quantity is the checked required quantity and the net quantity
\* after the SELL is >= 0.
NumericSameBidSellStaysLong ==
  [][\A p \in Procs :
       /\ (BetweenCheckAndFill(p) /\ pc[p] # "txCommit")
            => orders' = orders /\ executions' = executions
       /\ CommitsSellAtCheckedBid(p)
            => LET trade == call[p].plan.trades[call[p].idx]
               IN /\ \E x \in executions' \ executions :
                       /\ executions' = executions \cup {x}
                       /\ x.quantity * call[p].checkedBid = trade.size * ONE
                  /\ \A marketTokenId \in {trade.marketTokenId} :
                     \A outcome \in {trade.outcome} :
                       NetQuantity(marketTokenId, outcome, "paper")' >= 0]_vars

\* buyQuantity - sellQuantity over the rows of a position as the code's
\* numbers give it: NaN as soon as one quantity is NaN.
NetOfRows(rows) ==
  IF \E r \in rows : r.quantity = NaN THEN NaN
  ELSE SumQuantity({r \in rows : r.side = "BUY"})
         - SumQuantity({r \in rows : r.side = "SELL"})

\* C23 (as the specification states it): for a MARKET SELL whose check and
\* fill read the same best bid, the filled quantity equals the required
\* quantity of the check, size / best bid, and the net quantity after the
\* SELL is >= 0; the call writes the rows of the fill only.
C23_SameBidSellStaysLong ==
  (output # Null /\ NeedsSellGate(input.trade) /\ output.thrown = Null)
    => /\ \E x \in output.executions \ input.tables.executions :
            /\ output.executions = input.tables.executions \cup {x}
            /\ x.quantity = Divide(input.trade.size, input.orderBook.bids[1])
       /\ Ge(NetOfRows(PositionRows(output.orders, output.executions,
                                    input.trade.marketTokenId,
                                    input.trade.outcome, "paper")), 0)


----------------------------------------------------------------------------
(* What the fill simulation depends on.                                    *)

\* The trade is a LIMIT SELL that reaches a best bid inside (0,1): the one
\* case in which simulateLimitOrderFill calls validateSellPosition.
LooksUpPosition(trade, orderBook) ==
  /\ trade.orderType = "LIMIT"
  /\ trade.side = "SELL"
  /\ Len(orderBook.bids) > 0
  /\ LimitReaches(trade, orderBook.bids[1])
  /\ 0 < orderBook.bids[1]
  /\ orderBook.bids[1] < ONE

\* C24 (as the specification states it): the outcome of the fill simulation
\* is a function of the trade and the order book only: with other stored
\* orders and fills it is the same; and the simulation writes nothing.
C24_SimulationIgnoresStore ==
  /\ [](\A p \in Procs :
          pc[p] = "simulate" =>
            \A orderBook \in Books : \A tables \in HeldTables :
              simulateFill(call[p].plan.trades[call[p].idx], orderBook,
                           orders, executions)
                = simulateFill(call[p].plan.trades[call[p].idx], orderBook,
                               tables.orders, tables.executions))
  /\ [][\A p \in Procs :
          pc[p] = "simulate" => orders' = orders /\ executions' = executions]_vars

\* C24 (amended): the outcome of the fill simulation is a function of the
\* trade and the order book only, except for a LIMIT SELL that reaches a best
\* bid inside (0,1): that simulation looks up the position of the trade's
\* instrument and outcome and fails with InsufficientPosition exactly when
\* the position does not cover size / best bid, and otherwise fills as the
\* order book says.  No simulation writes a row.
C24_OnlyCrossingLimitSellReadsStore ==
  /\ [](\A p \in Procs :
          pc[p] = "simulate" =>
            \A orderBook \in Books : \A tables \in HeldTables :
              LET trade == call[p].plan.trades[call[p].idx]
                  here == simulateFill(trade, orderBook, orders, executions)
                  there == simulateFill(trade, orderBook,
                                        tables.orders, tables.executions)
              IN IF LooksUpPosition(trade, orderBook)
                 THEN /\ (here = Throw(Err("InsufficientPosition")))
                           <=> ~PositionCovers(trade, orderBook.bids[1])
                      /\ (here # there) =>
                           Throw(Err("InsufficientPosition")) \in {here, there}
                      /\ here # Throw(Err("InsufficientPosition")) =>
                           here = Fill(orderBook.bids[1],
                                       Divide(trade.size, orderBook.bids[1]))
                 ELSE here = there)
  /\ [][\A p \in Procs :
          pc[p] = "simulate" => orders' = orders /\ executions' = executions]_vars

\* A LIMIT SELL is about to be simulated while the store holds a position
\* that covers it: with an empty store the same simulation would fail.
C24_Witness ==
  \E p \in Procs :
    /\ pc[p] = "simulate"
    /\ call[p].plan.trades[call[p].idx].orderType = "LIMIT"
    /\ call[p].plan.trades[call[p].idx].side = "SELL"
    /\ PositionCovers(call[p].plan.trades[call[p].idx], LimitTick)


----------------------------------------------------------------------------
(* Orders and their history record.                                        *)

\* C25: the plan id of every order is the key of an execution history record
\* committed before the order: whenever an order or a fill of a plan is
\* written, the record of that plan exists already and has status running.
C25_RecordBeforeOrders ==
  /\ [](\A o \in orders : HasRecord(o.planId))
  /\ [](\A p \in Procs : \A o \in tx[p].orders : HasRecord(o.planId))
  /\ [][\A o \in (orders' \ orders) \cup UNION {tx'[p].orders \ tx[p].orders : p \in Procs} :
          /\ HasRecord(o.planId)
          /\ StatusOf(o.planId) = "running"]_vars
  /\ [][\A x \in (executions' \ executions)
                   \cup UNION {tx'[p].executions \ tx[p].executions : p \in Procs} :
          \E o \in orders \cup UNION {tx[p].orders : p \in Procs} :
            /\ o.id = x.orderId
            /\ HasRecord(o.planId)
            /\ StatusOf(o.planId) = "running"]_vars

\* The first trade of a plan is stored filled while the plan's record is
\* still running.
C25_Witness ==
  \E o \in orders :
    /\ FillsOf(o) # {}
    /\ HasRecord(o.planId)
    /\ StatusOf(o.planId) = "running"


\* C26: an execution history record carries a summary only when its status
\* is completed and an error message only when its status is failed: a
\* running record has neither, a completed record has a summary and no error
\* message, a failed record has an error message and no summary.
C26_SummaryAndErrorFollowStatus ==
  \A planId \in DOMAIN executionHistory :
    LET record == executionHistory[planId]
    IN /\ record.status \in {"running", "completed", "failed"}
       /\ record.status = "running"
            => record.summaryJson = Null /\ record.errorMessage = Null
       /\ record.status = "completed"
            => record.summaryJson # Null /\ record.errorMessage = Null
       /\ record.status = "failed"
            => record.summaryJson = Null /\ record.errorMessage # Null

\* A completed record and a failed record side by side.
C26_Witness ==
  /\ \E planId \in DOMAIN executionHistory : StatusOf(planId) = "completed"
  /\ \E planId \in DOMAIN executionHistory : StatusOf(planId) = "failed"


----------------------------------------------------------------------------
(* What one executeTrade call writes.                                      *)

\* The step of p ends the executeTrade call it was in with a result.
SucceedsExecuteTrade(p) == EndsExecuteTrade(p) /\ pc'[p] # "failing"

\* C27: a successful executeTrade call creates exactly one new order and at
\* most one new fill (one if and only if the order is filled), tagged with
\* the plan id it was given, and leaves every order, fill and execution
\* history record that existed before unchanged.
C27_OneOrderAtMostOneFill ==
  [][\A p \in Procs :
       /\ (InExecuteTrade(p) /\ pc'[p] # pc[p] /\ ~SucceedsExecuteTrade(p))
            => /\ orders' = orders
               /\ executions' = executions
               /\ executionHistory' = executionHistory
       /\ SucceedsExecuteTrade(p)
            => /\ executionHistory' = executionHistory
               /\ orders \subseteq orders'
               /\ executions \subseteq executions'
               /\ Cardinality(orders' \ orders) = 1
               /\ Cardinality(executions' \ executions) <= 1
               /\ \A o \in orders' \ orders :
                    /\ o.planId = call[p].plan.planId
                    /\ o.id \notin {old.id : old \in orders}
                    /\ o.status \in {"open", "filled"}
                    /\ (o.status = "filled") <=> (executions' # executions)
                    /\ \A x \in executions' \ executions :
                         /\ x.orderId = o.id
                         /\ x.id \notin {old.id : old \in executions}]_vars

\* The second trade of a plan has been stored filled next to the filled order
\* and the fill of the first.
C27_Witness ==
  \E o1 \in orders : \E o2 \in orders :
    /\ o1.id # o2.id
    /\ o1.planId = o2.planId
    /\ o1.status = "filled" /\ o2.status = "filled"
    /\ FillsOf(o1) # {} /\ FillsOf(o2) # {}


----------------------------------------------------------------------------
(* Position lookups next to an open transaction.                           *)

\* Process q is at an await that runs calculatePosition: the MARKET SELL
\* gate, the simulation of a LIMIT SELL, or the run summary.
ReadsPosition(q) ==
  \/ pc[q] = "validate"
  \/ pc[q] = "summary"
  \/ /\ pc[q] = "simulate"
     /\ CurrentTrade(q).side = "SELL"
     /\ CurrentTrade(q).orderType = "LIMIT"

\* C28: a calculatePosition that runs while another process is inside
\* executeTradeTransaction never observes a partial transaction: the tables
\* it reads hold none of the rows of the open transaction, no fill whose
\* order is open or missing and no filled order without its fill; and the
\* rows of a transaction become readable all in one step.
C28_NoPartialTransactionSeen ==
  /\ [](\A q \in Procs : \A p \in Procs \ {q} :
          (ReadsPosition(q) /\ InTransaction(p)) =>
            /\ \A o \in tx[p].orders : o.id \notin {seen.id : seen \in orders}
            /\ \A x \in tx[p].executions :
                 x.id \notin {seen.id : seen \in executions}
            /\ \A x \in executions :
                 \E o \in orders : o.id = x.orderId /\ o.status = "filled"
            /\ \A o \in orders : o.status = "filled" => FillsOf(o) # {})
  /\ [][\A p \in Procs :
          (\E row \in tx[p].orders \cup tx[p].executions :
             row \in orders' \cup executions')
            => /\ tx[p].orders \subseteq orders'
               /\ tx[p].executions \subseteq executions'
               /\ tx[p].executions # {}
               /\ \A o \in tx[p].orders : o.status = "filled"
               /\ \A q \in Procs \ {p} :
                    ReadsPosition(q)' =>
                      \A o \in tx[p].orders :
                        \E x \in executions' : x.orderId = o.id]_vars

\* One process is about to look up a position while the other has inserted
\* the order and the fill of its trade and has not committed.
C28_Witness ==
  \E q \in Procs : \E p \in Procs \ {q} :
    /\ ReadsPosition(q)
    /\ pc[p] \in {"txStatus", "txCommit"}
    /\ tx[p].orders # {}
    /\ tx[p].executions # {}


----------------------------------------------------------------------------
(* The positions and the total of the run summary.                         *)

\* The instrument and outcome pairs on the orders of a plan that have at
\* least one fill in the tables, of this plan or of another.
KeysWithFill(ords, execs, planId, mode) ==
  {<<o.marketTokenId, o.outcome>> :
     o \in {x \in getOrdersByPlanId(ords, planId) :
              PositionRows(ords, execs, x.marketTokenId, x.outcome, mode) # {}}}

\* C29: the totalPnL of the run summary is the sum of the realized P&L of the
\* positions in its list, and the list holds exactly one entry for every
\* distinct instrument and outcome that is on an order of the plan and has at
\* least one fill: a pair touched by several trades of the plan is counted
\* once.
C29_OneEntryPerInstrumentOutcome ==
  (output # Null /\ "summary" \in DOMAIN output) =>
    LET ords == OrdersOfRows(input.rows)
        execs == ExecutionsOfRows(input.rows)
        summary == output.summary
        keys == KeysWithFill(ords, execs, "P1", "paper")
        entry(k) == {x \in summary.positions :
                       x.marketTokenId = k[1] /\ x.outcome = k[2]}
    IN /\ Cardinality(summary.positions) = Cardinality(keys)
       /\ \A x \in summary.positions :
            <<x.marketTokenId, x.outcome>> \in keys
       /\ \A k \in keys :
            /\ Cardinality(entry(k)) = 1
            /\ \A x \in entry(k) :
                 x.realizedPnL =
                   calculatePosition(ords, execs, k[1], k[2], "paper").realizedPnL
       /\ summary.totalPnL =
            SumRealizedPnL({[key |-> k,
                             realizedPnL |->
                               calculatePosition(ords, execs, k[1], k[2],
                                                 "paper").realizedPnL] :
                              k \in keys})

\* The plan bought and sold on one instrument and outcome: one entry, whose
\* realized P&L 50 * (0.50 - 0.40) is the total.
C29_Witness ==
  /\ output # Null /\ "summary" \in DOMAIN output
  /\ Len(input.rows) = 2
  /\ \A i \in 1 .. 2 : input.rows[i].planId = "P1" /\ input.rows[i].status = "filled"
  /\ input.rows[1].key = input.rows[2].key
  /\ input.rows[1].side = "BUY" /\ input.rows[2].side = "SELL"
  /\ Cardinality(output.summary.positions) = 1
  /\ RatIs(output.summary.totalPnL, 500, 1)


----------------------------------------------------------------------------
(* What calculatePosition counts.                                          *)

\* The fills of outcome YES in mode paper among the rows drawn.
CountedFills(rows) ==
  {[id |-> i, side |-> rows[i].side, quantity |-> rows[i].quantity,
    price |-> IF rows[i].side = "BUY" THEN 40 ELSE 50] :
     i \in {j \in DOMAIN rows : /\ rows[j].status = "filled"
                                /\ rows[j].outcome = "YES"
                                /\ rows[j].mode = "paper"}}

\* C30: calculatePosition returns no position exactly when no fill exists for
\* the instrument, outcome and mode; open orders contribute nothing to net
\* quantity, average price or realized P&L, and fills of another outcome or
\* mode are not counted: the position is the one of the counted fills alone.
C30_OnlyFillsOfOutcomeAndMode ==
  (output # Null /\ "held" \in DOMAIN input) =>
    LET counted == CountedFills(input.held)
    IN /\ (output.position = Null) <=> (counted = {})
       /\ counted # {} =>
            /\ output.position = PositionOfRows(counted, "T1", "YES")
            /\ output.position.netQuantity =
                 SumQuantity({r \in counted : r.side = "BUY"})
                   - SumQuantity({r \in counted : r.side = "SELL"})

\* A counted BUY next to an open order of the same outcome and mode, and a
\* counted BUY next to a fill of the other mode.
C30_Witness ==
  /\ output # Null /\ "held" \in DOMAIN input
  /\ output.position # Null
  /\ output.position.netQuantity = 100
  /\ \E i \in DOMAIN input.held :
       \/ /\ input.held[i].status = "open"
          /\ input.held[i].outcome = "YES"
          /\ input.held[i].mode = "paper"
       \/ /\ input.held[i].status = "filled"
          /\ input.held[i].outcome = "YES"
          /\ input.held[i].mode = "live"


----------------------------------------------------------------------------
(* The result of validateSellPosition.                                     *)

\* The position that the validation was made on.
PositionValidated ==
  calculatePosition(OrdersOfFills(input.fills), ExecutionsOfFills(input.fills),
                    "T1", "YES", "paper")

\* valid is true exactly when the position exists, is long and covers the
\* required quantity, and the result reports the net quantity.
ValidIffCovered ==
  LET position == PositionValidated
      validation == output.validation
  IN /\ validation.valid <=>
          /\ position # Null
          /\ Gt(position.netQuantity, 0)
          /\ Ge(position.netQuantity, input.requiredQuantity)
     /\ validation.currentQuantity =
          (IF position = Null THEN 0 ELSE position.netQuantity)

\* C31: validateSellPosition returns valid = true if and only if a position
\* exists, its net quantity is > 0 and its net quantity is >= the required
\* quantity; in every case it reports the current net quantity, 0 when the
\* position is absent.
C31_ValidIffPositionCovers ==
  (output # Null /\ "validation" \in DOMAIN output) => ValidIffCovered

\* The same for every required quantity that is a number.
NumericValidIffPositionCovers ==
  (/\ output # Null
   /\ "validation" \in DOMAIN output
   /\ input.requiredQuantity # NaN) => ValidIffCovered


----------------------------------------------------------------------------
(* Committed rows stay as they are.                                        *)

\* C32: once committed, an order never changes status and a fill is never
\* modified, and no operation deletes an order, a fill or an execution
\* history record: an open LIMIT order stays open with no fill through every
\* later plan execution, whatever the later order books.
C32_CommittedRowsImmutable ==
  [][/\ \A o \in orders :
          /\ o \in orders'
          /\ FillsOf(o)' = FillsOf(o)
          /\ \A later \in orders' : later.id = o.id => later = o
     /\ \A x \in executions :
          /\ x \in executions'
          /\ \A later \in executions' : later.id = x.id => later = x
     /\ DOMAIN executionHistory \subseteq DOMAIN executionHistory']_vars

\* An open LIMIT order of one plan is still open and without a fill after a
\* later plan has filled an order on the same instrument and completed.
C32_Witness ==
  \E o \in orders : \E later \in orders :
    /\ o.status = "open" /\ o.orderType = "LIMIT"
    /\ FillsOf(o) = {}
    /\ later.id > o.id
    /\ later.planId # o.planId
    /\ later.marketTokenId = o.marketTokenId
    /\ later.status = "filled"
    /\ HasRecord(later.planId)
    /\ StatusOf(later.planId) = "completed"


----------------------------------------------------------------------------
(* The price of a LIMIT fill.                                              *)

\* C33: every LIMIT order that fills does so at a price no worse than its
\* limit: the fill price of a filled LIMIT BUY is <= its limit price and the
\* fill price of a filled LIMIT SELL is >= its limit price.
C33_LimitFillsNoWorseThanLimit ==
  \A o \in orders :
    o.orderType = "LIMIT" =>
      \A x \in FillsOf(o) :
        /\ o.price # NoPrice
        /\ o.side = "BUY" => Le(x.price, o.price)
        /\ o.side = "SELL" => Ge(x.price, o.price)

\* A LIMIT BUY filled below its limit and a LIMIT SELL filled above its limit.
C33_Witness ==
  /\ \E o \in orders : \E x \in FillsOf(o) :
       o.orderType = "LIMIT" /\ o.side = "BUY" /\ x.price < o.price
  /\ \E o \in orders : \E x \in FillsOf(o) :
       o.orderType = "LIMIT" /\ o.side = "SELL" /\ x.price > o.price

\* The same on the result of one executeTrade call whose order book may hold
\* prices that are not numbers.
FedLimitFillsNoWorseThanLimit ==
  (output # Null /\ "orders" \in DOMAIN output) =>
    \A o \in output.orders :
      o.orderType = "LIMIT" =>
        \A x \in {y \in output.executions : y.orderId = o.id} :
          /\ o.side = "BUY" => Le(x.price, o.price)
          /\ o.side = "SELL" => Ge(x.price, o.price)


----------------------------------------------------------------------------
(* Orders of a plan against the status of its record.                      *)

\* The number of trades of the plan stored on the record of a plan id.
TradesOfRecord(planId) == Len(executionHistory[planId].planJson.trades)

\* The record of the plan id failed on an error raised outside executeTrade,
\* after the loop: executeTrade's catch wraps every database error raised by a
\* trade, so a bare one comes from the summary or the completion.
FailedAfterLastTrade(planId) ==
  /\ StatusOf(planId) = "failed"
  /\ executionHistory[planId].errorMessage = Err("PersistenceFailure")

\* A completed record has one order per trade of its plan, each filled or open.
CompletedHasAllOrders(planId) ==
  StatusOf(planId) = "completed" =>
    /\ Cardinality(OrdersOfPlan(planId)) = TradesOfRecord(planId)
    /\ \A o \in OrdersOfPlan(planId) : o.status \in {"filled", "open"}

\* C34 (as the specification states it): when the record of a plan is
\* completed the plan has exactly one order per trade, each filled or open;
\* when it is failed the plan has strictly fewer orders than trades.
C34_FailedHasFewerOrders ==
  \A planId \in DOMAIN executionHistory :
    /\ CompletedHasAllOrders(planId)
    /\ StatusOf(planId) = "failed" =>
         Cardinality(OrdersOfPlan(planId)) < TradesOfRecord(planId)

\* C34 (amended): when the record of a plan is completed the plan has exactly
\* one order per trade, each filled or open; when it is failed the plan has at
\* most one order per trade, and strictly fewer orders than trades unless the
\* error was raised after the last trade had returned, while the summary was
\* built or the record completed.
C34_FailedHasFewerOrdersUnlessAfterLoop ==
  \A planId \in DOMAIN executionHistory :
    /\ CompletedHasAllOrders(planId)
    /\ StatusOf(planId) = "failed" =>
         /\ Cardinality(OrdersOfPlan(planId)) <= TradesOfRecord(planId)
         /\ FailedAfterLastTrade(planId)
              <=> Cardinality(OrdersOfPlan(planId)) = TradesOfRecord(planId)

\* A plan of two trades failed at its second trade with the order of the
\* first stored.
C34_Witness ==
  \E planId \in DOMAIN executionHistory :
    /\ StatusOf(planId) = "failed"
    /\ ~FailedAfterLastTrade(planId)
    /\ TradesOfRecord(planId) = 2
    /\ Cardinality(OrdersOfPlan(planId)) = 1


----------------------------------------------------------------------------
(* Plans submitted in live mode.                                           *)

\* The record of the plan id was created by a call made with a live plan.
LiveRecord(planId) == executionHistory[planId].planJson.mode = "live"

\* Process p runs the call that created the record of its plan.
OwnsRecord(p) ==
  /\ call[p] # Null
  /\ call[p].created
  /\ HasRecord(call[p].plan.planId)
  /\ executionHistory[call[p].plan.planId].planJson = call[p].plan

\* C35: a plan submitted with mode live creates its execution history record,
\* executes no trade and writes no order or fill, ends with the record failed
\* carrying the live-mode-not-supported error, and its plan id is afterwards
\* rejected as a duplicate even when resubmitted in paper mode.
C35_LivePlanFailsAndBlocksItsId ==
  /\ [](\A planId \in DOMAIN executionHistory :
          LiveRecord(planId) =>
            /\ OrdersOfPlan(planId) = {}
            /\ StatusOf(planId) \in {"running", "failed"}
            /\ StatusOf(planId) = "failed" =>
                 executionHistory[planId].errorMessage = Err("LiveNotSupported"))
  /\ [](\A p \in Procs :
          (OwnsRecord(p) /\ call[p].plan.mode = "live") =>
            /\ pc[p] \in {"failing", "done"}
            /\ call[p].fetched = {}
            /\ tx[p] = NoTx
            /\ pc[p] = "failing" => StatusOf(call[p].plan.planId) = "running"
            /\ pc[p] = "done" =>
                 /\ StatusOf(call[p].plan.planId) = "failed"
                 /\ result[p] = Threw(Err("LiveNotSupported")))
  /\ [][\A p \in Procs :
          /\ (pc[p] = "create" /\ pc'[p] # "create" /\ pc'[p] # "done"
              /\ call[p].plan.mode = "live")
               => /\ HasRecord(call[p].plan.planId)'
                  /\ LiveRecord(call[p].plan.planId)'
                  /\ pc'[p] = "failing"
                  /\ orders' = orders /\ executions' = executions
          /\ (SubmittedBy(p) /\ HasRecord(call'[p].plan.planId)
              /\ LiveRecord(call'[p].plan.planId))
               => /\ pc'[p] = "done"
                  /\ result'[p] = Threw(Err("DuplicatePlan"))
                  /\ orders' = orders /\ executions' = executions
                  /\ executionHistory' = executionHistory]_vars

\* A plan id that failed in live mode was resubmitted in paper mode and
\* rejected as a duplicate.
C35_Witness ==
  \E p \in Procs :
    /\ pc[p] = "done"
    /\ call[p] # Null
    /\ call[p].plan.mode = "paper"
    /\ result[p] = Threw(Err("DuplicatePlan"))
    /\ HasRecord(call[p].plan.planId)
    /\ LiveRecord(call[p].plan.planId)
    /\ StatusOf(call[p].plan.planId) = "failed"
    /\ executionHistory[call[p].plan.planId].errorMessage = Err("LiveNotSupported")
    /\ OrdersOfPlan(call[p].plan.planId) = {}


----------------------------------------------------------------------------
(* The statuses that orders take.                                          *)

\* C36: every persisted order has status filled or open, never failed,
\* cancelled or partially_filled, and every open order is a LIMIT order with
\* a limit price; so ordersFailed and ordersPartiallyFilled are 0 in every
\* run summary, the returned one and the one stored on the record.
C36_OnlyFilledOrOpen ==
  /\ \A o \in orders :
       /\ o.status \in {"filled", "open"}
       /\ o.status = "open" => o.orderType = "LIMIT" /\ o.price # NoPrice
  /\ \A p \in Procs :
       result[p].outcome = "returned" =>
         /\ result[p].summary.ordersFailed = 0
         /\ result[p].summary.ordersPartiallyFilled = 0
  /\ \A planId \in DOMAIN executionHistory :
       executionHistory[planId].summaryJson # Null =>
         /\ executionHistory[planId].summaryJson.ordersFailed = 0
         /\ executionHistory[planId].summaryJson.ordersPartiallyFilled = 0

\* A run returned its summary for a plan that stored an open LIMIT order and a
\* filled order.
C36_Witness ==
  \E p \in Procs :
    /\ pc[p] = "done"
    /\ StatusOf(call[p].plan.planId) = "completed"
    /\ result[p] = Returned(executionHistory[call[p].plan.planId].summaryJson)
    /\ result[p].summary.ordersPlaced = 2
    /\ OrdersInStatus(call[p].plan.planId, "open") # {}
    /\ OrdersInStatus(call[p].plan.planId, "filled") # {}

====
